---------------------------- MODULE Spec2Model ----------------------------
(***************************************************************************)
(* A model of bootstrap/genesis/scripts/provision-usb.py: the artifact     *)
(* fetch with its presence cache, the converted-disk cache with its        *)
(* fingerprint, the session cleanup, and the driver main().                *)
(*                                                                         *)
(* Seven specifications share the definitions that model the code:        *)
(*   Spec      one run of main(), stage by stage;                          *)
(*   SpecFetch download_http / download_s3 called in any order on one      *)
(*             destination path;                                           *)
(*   SpecDisk  prepare_disk / cleanup called in any order on one session   *)
(*             directory, with any source image;                           *)
(*   SpecWait  wait_for_ventoy_install / wait_for_partition called with    *)
(*             any bound, the clock advancing as the calls poll and sleep; *)
(*   SpecPair  the install stage of two concurrent runs on one host;       *)
(*   SpecCalls load_iso_config and extract_vid_pid applied to one input;   *)
(*   SpecGuest the install script of the cloud-init payload, in the guest.  *)
(*                                                                         *)
(* File names are sequences of their dot-separated components, so that     *)
(* Path.stem, Path.suffix and str.endswith are computed, not assumed.      *)
(***************************************************************************)
EXTENDS Integers, Sequences, FiniteSets, TLC

VARIABLES
    vm,         \* the session directory: [exists, files], files: name -> content
    last,       \* SpecDisk: the last call on the session directory and its outcome
    cache,      \* the download cache: artifact -> file (present or not, chunks held)
    creds,      \* whether DownloadManager holds credentials
    fetch,      \* SpecFetch: the last fetch call and its outcome
    pc,         \* Spec: the statement of main() that runs next
    opt,        \* Spec: the command line: device, skip_download, skip_ventoy, yes
    host,       \* Spec: the host: arch, the manifest, whether gateway.conf exists
    run,        \* Spec: main()'s locals: usb_device, the answer given to
                \*       confirm_device and its result, the ISO paths, vid_pid
    listed,     \* Spec: whether vmrun list names the session's description
    clock,      \* Spec: seconds since wait_for_ventoy_install started / polls
                \*       made by wait_for_partition
    log,        \* Spec: the stages executed so far, in order
    failed,     \* Spec: the stages that reported failure
    pending,    \* Spec: the exception on its way through the try block
    tally,      \* Spec: cleanup calls, soft stops sent, and whether the session
                \*       was listed when cleanup looked
    usb,        \* Spec: the file names copied to the mounted partition
    status,     \* Spec: the exit status: "none" | "zero" | "nonzero"
    poll,       \* SpecWait: the polling call in progress or last made
    pair,       \* SpecPair: two concurrent runs of the install on one host
    call,       \* SpecCalls: a function applied to an input: [fn, arg, done, ret]
    script      \* SpecGuest: /opt/install-ventoy.sh running in the guest

mainVars == <<pc, opt, host, run, listed, clock, log, failed, pending, tally, usb, status>>
vars == <<vm, last, cache, creds, fetch, mainVars, poll, pair, call, script>>

-----------------------------------------------------------------------------
(* Bounds *)

\* source sizes and modification times range over 1..MaxStat
MaxStat == 2

\* a remote object is FileChunks chunks long
FileChunks == 2

\* wait_for_ventoy_install is given bounds of 0..MaxWait seconds and
\* wait_for_partition bounds of 0..MaxPolls; a subprocess or a sleep takes up
\* to MaxLag seconds longer than asked
MaxWait == 17
MaxPolls == 4
MaxLag == 1

\* a manifest lists up to MaxImages images; ioreg shows up to MaxBlocks blocks
MaxImages == 3
MaxBlocks == 2

-----------------------------------------------------------------------------
(* File names and the session directory *)

\* Path.stem: the name without its last suffix
stem(name) == IF Len(name) > 1 THEN SubSeq(name, 1, Len(name) - 1) ELSE name

\* Path.suffix, without its dot; "" when the name has none
suffix(name) == IF Len(name) > 1 THEN name[Len(name)] ELSE ""

\* name.endswith(".vmdk.meta.json")
ends_with_vmdk_meta_json(name) ==
    /\ Len(name) >= 4
    /\ SubSeq(name, Len(name) - 2, Len(name)) = <<"vmdk", "meta", "json">>

\* vm_dir / f"{image_path.stem}.vmdk"
vmdk_path(image) == stem(image.name) \o <<"vmdk">>

\* vmdk_path.with_name(f"{vmdk_path.name}.meta.json")
vmdk_metadata_path(vmdk) == vmdk \o <<"meta", "json">>

NoSrc == [source_name |-> <<>>, source_size |-> 0, source_mtime_ns |-> 0,
          source_format |-> ""]

\* the dict _write_vmdk_metadata builds from the source's stat()
fingerprint(image, fmt) ==
    [source_name |-> image.name, source_size |-> image.size,
     source_mtime_ns |-> image.mtime, source_format |-> fmt]

\* File contents.  A disk remembers the source it was converted from and
\* whether the conversion wrote it completely; a fingerprint file holds the
\* JSON record, or is truncated (ok = FALSE).
Data == [kind |-> "data", src |-> NoSrc, ok |-> TRUE]
Folder == [kind |-> "dir", src |-> NoSrc, ok |-> TRUE]
Disk(fp, whole) == [kind |-> "disk", src |-> fp, ok |-> whole]
Meta(fp) == [kind |-> "meta", src |-> fp, ok |-> TRUE]
BadMeta == [kind |-> "meta", src |-> NoSrc, ok |-> FALSE]

NoFiles == [n \in {} |-> Data]
NoDir == [exists |-> FALSE, files |-> NoFiles]

exists(files, n) == n \in DOMAIN files
unlink(files, n) == [m \in DOMAIN files \ {n} |-> files[m]]
write(files, n, c) == [m \in DOMAIN files \cup {n} |-> IF m = n THEN c ELSE files[m]]
rename(files, from, to) == write(unlink(files, from), to, files[from])


-----------------------------------------------------------------------------
(* Artifact Store: DownloadManager.download_http, download_s3 *)

Artifacts == {"ubuntu", "vyos", "talos"}

NoFile == [there |-> FALSE, chunks |-> 0]
File(k) == [there |-> TRUE, chunks |-> k]
Whole == File(FileChunks)
NoCache == [a \in Artifacts |-> NoFile]

Fetched(file, ret, reqs) == [file |-> file, ret |-> ret, reqs |-> reqs]

\* fetch: the last call, whether its destination existed when it was made
\* (hit), what happened during it (ev), what it returned and how many
\* requests it sent
NoFetch == [op |-> "none", artifact |-> "", hit |-> FALSE, ev |-> "", ret |-> "",
            reqs |-> 0]

\* What the network and the host do during one download_http call; written
\* is the number of chunks f.write has stored when the call is cut short:
\*   "ok"         the stream ends normally
\*   "status"     an httpx.HTTPError before dest.open (connect, raise_for_status)
\*   "transport"  an httpx.HTTPError while streaming
\*   "oserror"    f.write raises OSError (disk full)
\*   "interrupt"  KeyboardInterrupt while streaming
HttpEvents ==
    {[kind |-> "ok", written |-> FileChunks], [kind |-> "status", written |-> 0]}
    \cup [kind : {"transport", "oserror", "interrupt"}, written : 0..(FileChunks - 1)]

\* download_http without the cache check of its first lines
download_http_refetching(file, ev) ==
    CASE ev.kind = "ok" -> Fetched(Whole, "true", 1)
      [] OTHER -> Fetched(NoFile, "false", 1)

\* download_http: ret is "true" | "false", or the exception that leaves the call
download_http(file, ev) ==
    IF file.there THEN Fetched(file, "true", 0)          \* Using cached
    ELSE CASE ev.kind = "ok" -> Fetched(Whole, "true", 1)
           [] ev.kind = "status" -> Fetched(NoFile, "false", 1)
           \* except httpx.HTTPError: if dest.exists(): dest.unlink()
           [] ev.kind = "transport" -> Fetched(NoFile, "false", 1)
           \* neither OSError nor KeyboardInterrupt is an httpx.HTTPError
           [] ev.kind = "oserror" -> Fetched(File(ev.written), "raise", 1)
           [] OTHER -> Fetched(File(ev.written), "interrupt", 1)

\* What happens during one download_s3 call:
\*   "ok"         head_object and download_file succeed
\*   "probe"      head_object raises
\*   "transfer"   download_file raises an Exception
\*   "interrupt"  KeyboardInterrupt during download_file
\* boto3's download_file writes a temporary file beside dest and renames it
\* when the transfer is complete, so dest itself never holds part of it.
S3Events == {"ok", "probe", "transfer", "interrupt"}

\* download_s3 asking for the credentials before it looks at the destination
download_s3_credentials_first(file, has_creds, ev) ==
    IF ~has_creds THEN Fetched(file, "false", 0)
    ELSE IF file.there THEN Fetched(file, "true", 0)
    ELSE CASE ev = "ok" -> Fetched(Whole, "true", 2)
           [] ev = "probe" -> Fetched(NoFile, "false", 1)
           [] ev = "transfer" -> Fetched(NoFile, "false", 2)
           [] OTHER -> Fetched(NoFile, "interrupt", 2)

download_s3(file, has_creds, ev) ==
    IF file.there THEN Fetched(file, "true", 0)          \* Using cached
    ELSE IF ~has_creds THEN Fetched(file, "false", 0)
    ELSE CASE ev = "ok" -> Fetched(Whole, "true", 2)
           [] ev = "probe" -> Fetched(NoFile, "false", 1)
           [] ev = "transfer" -> Fetched(NoFile, "false", 2)
           [] OTHER -> Fetched(NoFile, "interrupt", 2)

-----------------------------------------------------------------------------
(* Disk Image Preparer: VMwareManager._vmdk_is_fresh, prepare_disk *)

\* What the host and its tools do during one prepare_disk call:
\*   qemu_present  shutil.which("qemu-img") finds the tool
\*   qemu          "ok" | "fail" | "fail_partial" (non-zero, output left behind)
\*   ovf_present   OVFTOOL.exists()
\*   ovf           "ok" | "ok_nodisk" (exit 0, no disk written) | "fail" |
\*                 "fail_partial" (non-zero, output left behind)
\*   tar           "ok" | "no_member" | "error" (tarfile.open raises)
\*   intr          an external interrupt: "none" | "after_unlink" (between the
\*                 two unlinks) | "before_meta" | "mid_meta" (write_text has
\*                 truncated the file and not yet written it)
Env(qp, q, op, o, t, i) ==
    [qemu_present |-> qp, qemu |-> q, ovf_present |-> op, ovf |-> o, tar |-> t,
     intr |-> i]

\* an interrupt at the fingerprint write matters only after a conversion that
\* succeeded, so the other outcomes are listed without one
MetaIntr == {"none", "before_meta", "mid_meta"}

QcowEnvs ==
    {Env(FALSE, "fail", FALSE, "fail", "error", "none")}
    \cup {Env(TRUE, q, FALSE, "fail", "error", "none") : q \in {"fail", "fail_partial"}}
    \cup {Env(TRUE, "ok", FALSE, "fail", "error", i) : i \in MetaIntr \cup {"after_unlink"}}

OvaEnvs ==
    {Env(FALSE, "fail", FALSE, "fail", t, "none") : t \in {"no_member", "error"}}
    \cup {Env(FALSE, "fail", FALSE, "fail", "ok", i) : i \in MetaIntr \cup {"after_unlink"}}
    \cup {Env(FALSE, "fail", TRUE, "ok", "error", i) : i \in MetaIntr}
    \cup {Env(FALSE, "fail", TRUE, o, t, "none") :
            o \in {"ok_nodisk", "fail", "fail_partial"}, t \in {"no_member", "error"}}
    \cup {Env(FALSE, "fail", TRUE, o, "ok", i) :
            o \in {"ok_nodisk", "fail", "fail_partial"}, i \in MetaIntr}

DiskEnvs(fmt) == IF fmt = "qcow2" THEN QcowEnvs ELSE OvaEnvs

ImportedVmx == <<"imported", "vmx">>
ImportedDisk == <<"imported-disk1", "vmdk">>

Outcome(files, ret, ops) == [files |-> files, ret |-> ret, ops |-> ops]

\* the fingerprint comparison leaving out the size
fresh_without_size(files, vmdk, image, fmt) ==
    LET meta == vmdk_metadata_path(vmdk) IN
    /\ exists(files, vmdk) /\ exists(files, meta) /\ files[meta].ok
    /\ files[meta].src.source_name = image.name
    /\ files[meta].src.source_mtime_ns = image.mtime
    /\ files[meta].src.source_format = fmt

\* a preparer that never trusts its cache
fresh_never(files, vmdk, image, fmt) == FALSE

vmdk_is_fresh(files, vmdk, image, fmt) ==
    LET meta == vmdk_metadata_path(vmdk) IN
    IF ~exists(files, vmdk) \/ ~exists(files, meta) THEN FALSE
    ELSE IF ~files[meta].ok THEN FALSE      \* json.JSONDecodeError
    ELSE LET data == files[meta].src IN
         /\ data.source_name = image.name
         /\ data.source_size = image.size
         /\ data.source_mtime_ns = image.mtime
         /\ data.source_format = fmt

\* meta_path.write_text(json.dumps(data)): ints and ASCII names survive the
\* JSON round trip exactly, so the record is stored as it is
write_vmdk_metadata(files, vmdk, image, fmt) ==
    write(files, vmdk_metadata_path(vmdk), Meta(fingerprint(image, fmt)))

\* the fingerprint write and the return that follows it, under env.intr
write_and_return(files, vmdk, image, fmt, env, ops) ==
    CASE env.intr = "before_meta" -> Outcome(files, "interrupt", ops)
      [] env.intr = "mid_meta" ->
            Outcome(write(files, vmdk_metadata_path(vmdk), BadMeta),
                    "interrupt", Append(ops, "write_meta"))
      [] OTHER ->
            Outcome(write_vmdk_metadata(files, vmdk, image, fmt),
                    "path", Append(ops, "write_meta"))

\* the qcow2 branch with the result of convert_qcow2_to_vmdk not looked at
prepare_qcow2_unchecked(files, vmdk, image, fmt, env, ops) ==
    IF ~env.qemu_present THEN Outcome(files, "raise", ops)
    ELSE write_and_return(
            IF env.qemu = "fail" THEN files
            ELSE write(files, vmdk, Disk(fingerprint(image, fmt), env.qemu = "ok")),
            vmdk, image, fmt, env, Append(ops, "qemu-img"))

\* image_format == "qcow2": check_qemu_img, convert_qcow2_to_vmdk, fingerprint
prepare_qcow2(files, vmdk, image, fmt, env, ops) ==
    IF ~env.qemu_present THEN Outcome(files, "raise", ops)
    ELSE LET ran == Append(ops, "qemu-img") IN
         CASE env.qemu = "ok" ->
                write_and_return(write(files, vmdk, Disk(fingerprint(image, fmt), TRUE)),
                                 vmdk, image, fmt, env, ran)
           [] env.qemu = "fail_partial" ->
                Outcome(write(files, vmdk, Disk(fingerprint(image, fmt), FALSE)),
                        "raise", ran)
           [] OTHER -> Outcome(files, "raise", ran)

\* sorted(vm_dir.glob("*.vmdk"), key=mtime, reverse=True)[0]: the converted
\* path is absent here, and the file ovftool has just written is the newest
newest_vmdk(files) ==
    IF exists(files, ImportedDisk) THEN ImportedDisk
    ELSE CHOOSE n \in {m \in DOMAIN files : suffix(m) = "vmdk"} : TRUE

\* for f in vm_dir.glob("imported.*"): if f.suffix != ".vmdk": f.unlink()
unlink_imported(files) ==
    [m \in {n \in DOMAIN files :
              ~(Len(n) >= 2 /\ n[1] = "imported" /\ suffix(n) # "vmdk")}
        |-> files[m]]

\* tar.getmembers() of the appliance: "ok" is an archive of a descriptor, two
\* disks and a manifest, "no_member" one that holds no disk
getmembers(kind) ==
    IF kind = "ok"
    THEN <<<<"ubuntu", "ovf">>, <<"ubuntu-disk1", "vmdk">>,
           <<"ubuntu-disk2", "vmdk">>, <<"ubuntu", "mf">>>>
    ELSE <<<<"ubuntu", "ovf">>, <<"ubuntu", "mf">>>>

\* what ops shows of tar.extract(member, ...): which member it was
Extracted == <<"extract 1", "extract 2", "extract 3", "extract 4">>

\* a loop that keeps the last member ending in .vmdk
RECURSIVE last_vmdk_member(_, _)
last_vmdk_member(members, i) ==
    IF i > Len(members) THEN 0
    ELSE LET later == last_vmdk_member(members, i + 1) IN
         IF later # 0 THEN later
         ELSE IF suffix(members[i]) = "vmdk" THEN i ELSE 0

\* for member in tar.getmembers(): if member.name.endswith(".vmdk"): ...
\* return: the place of the member the loop stops at, from place i on; 0 when
\* the loop runs out
RECURSIVE first_vmdk_member(_, _)
first_vmdk_member(members, i) ==
    IF i > Len(members) THEN 0
    ELSE IF suffix(members[i]) = "vmdk" THEN i
    ELSE first_vmdk_member(members, i + 1)

\* the archive fallback writing the fingerprint before it looks for a member
extract_ova_fingerprint_first(files, vmdk, image, fmt, env, ops) ==
    LET ran == <<"tar", "write_meta">>
        marked == write_vmdk_metadata(files, vmdk, image, fmt)
        member == first_vmdk_member(getmembers(env.tar), 1)
    IN IF env.tar = "error" \/ member = 0 THEN Outcome(marked, "raise", ops \o ran)
       ELSE Outcome(write(marked, vmdk, Disk(fingerprint(image, fmt), TRUE)),
                    "path", ops \o ran \o <<Extracted[member]>>)

\* the archive fallback: the first member ending in .vmdk, extracted under
\* the converted path's name
extract_ova(files, vmdk, image, fmt, env, ops) ==
    LET ran == Append(ops, "tar")
        member == first_vmdk_member(getmembers(env.tar), 1)
    IN IF env.tar = "error" THEN Outcome(files, "raise", ran)
       ELSE IF member = 0 THEN Outcome(files, "raise", ran)
       ELSE write_and_return(write(files, vmdk, Disk(fingerprint(image, fmt), TRUE)),
                             vmdk, image, fmt, env, Append(ran, Extracted[member]))

\* the OVA branch of prepare_disk: ovftool, then the archive fallback
prepare_ova(files, vmdk, image, fmt, env, ops) ==
    IF ~env.ovf_present THEN extract_ova(files, vmdk, image, fmt, env, ops)
    ELSE
      LET ran == Append(ops, "ovftool")
          fp == fingerprint(image, fmt)
          tooled ==
            CASE env.ovf = "ok" ->
                    write(write(files, ImportedVmx, Data), ImportedDisk, Disk(fp, TRUE))
              [] env.ovf = "ok_nodisk" -> write(files, ImportedVmx, Data)
              [] env.ovf = "fail_partial" ->
                    write(write(files, ImportedVmx, Data), ImportedDisk, Disk(fp, FALSE))
              [] OTHER -> files
          vmdk_files == {m \in DOMAIN tooled : suffix(m) = "vmdk"}
          renamed ==
            IF vmdk_files # {} /\ newest_vmdk(tooled) # vmdk
            THEN rename(tooled, newest_vmdk(tooled), vmdk)
            ELSE tooled
          cleaned == unlink_imported(renamed)
      IN IF env.ovf \in {"ok", "ok_nodisk"}
         THEN IF exists(cleaned, vmdk)
              THEN write_and_return(cleaned, vmdk, image, fmt, env,
                                    IF renamed # tooled THEN Append(ran, "rename") ELSE ran)
              ELSE extract_ova(cleaned, vmdk, image, fmt, env, ran)
         ELSE extract_ova(tooled, vmdk, image, fmt, env, ran)

\* prepare_disk: the outcome [files, ret, ops], ret = "path" | "raise" |
\* "interrupt", ops = the deletions, tool runs and fingerprint writes in order
prepare_disk(files, image, fmt, env) ==
    LET vmdk == vmdk_path(image)
        meta == vmdk_metadata_path(vmdk)
    IN IF vmdk_is_fresh(files, vmdk, image, fmt) THEN Outcome(files, "path", <<>>)
       ELSE IF exists(files, vmdk)
       THEN IF env.intr = "after_unlink"
            THEN Outcome(unlink(files, vmdk), "interrupt", <<"unlink_vmdk">>)
            ELSE IF fmt = "qcow2"
                 THEN prepare_qcow2(unlink(unlink(files, vmdk), meta), vmdk, image, fmt,
                                    env, <<"unlink_vmdk", "unlink_meta">>)
                 ELSE prepare_ova(unlink(unlink(files, vmdk), meta), vmdk, image, fmt,
                                  env, <<"unlink_vmdk", "unlink_meta">>)
       ELSE IF fmt = "qcow2"
            THEN prepare_qcow2(files, vmdk, image, fmt, env, <<>>)
            ELSE prepare_ova(files, vmdk, image, fmt, env, <<>>)

-----------------------------------------------------------------------------
(* VMwareManager.cleanup *)

\* a cleanup that removes the whole session directory's content
cleanup_everything(files) == NoFiles

\* a cleanup whose loop skips the directories instead of removing them
cleanup_keeping_dirs(files) ==
    [m \in {n \in DOMAIN files :
              \/ files[n].kind = "dir"
              \/ suffix(n) = "vmdk" \/ ends_with_vmdk_meta_json(n)}
        |-> files[m]]

\* the loop of cleanup: directories are removed, *.vmdk and *.vmdk.meta.json
\* files are kept, every other file is unlinked
cleanup_files(files) ==
    [m \in {n \in DOMAIN files :
              /\ files[n].kind # "dir"
              /\ (suffix(n) = "vmdk" \/ ends_with_vmdk_meta_json(n))}
        |-> files[m]]

\* cleanup after stop_vm: nothing when the directory does not exist
cleanup(dir) ==
    IF ~dir.exists THEN dir ELSE [dir EXCEPT !.files = cleanup_files(dir.files)]

-----------------------------------------------------------------------------
(* VMwareManager.create_cloud_init_iso, generate_vmx *)

CloudInitIso == <<"cloud-init", "iso">>
StagingDir == <<"cloud-init-staging">>
VmxPath == <<"ventoy-installer", "vmx">>

\* staging is rebuilt, hdiutil writes the image; staging is removed only
\* when hdiutil succeeded
create_cloud_init_iso(files, hdiutil_ok) ==
    LET staged == write(unlink(files, StagingDir), StagingDir, Folder) IN
    IF hdiutil_ok
    THEN Outcome(unlink(write(staged, CloudInitIso, Data), StagingDir), "path", <<"hdiutil">>)
    ELSE Outcome(staged, "raise", <<"hdiutil">>)

\* the template is read and the description written; a missing template raises
generate_vmx(files, template_exists) ==
    IF template_exists
    THEN Outcome(write(files, VmxPath, Data), "path", <<>>)
    ELSE Outcome(files, "raise", <<>>)

-----------------------------------------------------------------------------
(* The functions main() calls *)

\* UBUNTU_CLOUD_IMAGES and download_ubuntu_image's dest, by host architecture
Archs == {"x86_64", "arm64"}
image_format(arch) == IF arch = "arm64" THEN "qcow2" ELSE "ova"
image_name(arch) ==
    IF arch = "arm64" THEN <<"ubuntu-noble-cloudimg-arm64", "img">>
    ELSE <<"ubuntu-noble-cloudimg-x86_64", "ova">>

\* check_prerequisites: macOS, then (unless skip_ventoy) VMware Fusion and on
\* arm64 qemu-img, then gateway.conf
check_prerequisites(skip_ventoy, arch, darwin, fusion, qemu, vyos_config) ==
    IF ~darwin THEN FALSE
    ELSE IF ~skip_ventoy /\ ~fusion THEN FALSE
    ELSE IF ~skip_ventoy /\ arch = "arm64" /\ ~qemu THEN FALSE
    ELSE vyos_config

\* images.yaml: its spec.images entries, each a name and a destination (the
\* destination as its "/"-separated segments)
Entry(n, d) == [name |-> n, destination |-> d]
NoManifest == [exists |-> FALSE, images |-> <<>>]
Manifests ==
    {NoManifest,
     [exists |-> TRUE, images |-> <<Entry("vyos-stream", <<"vyos.iso">>),
                                    Entry("talos-um760", <<"talos.iso">>)>>],
     [exists |-> TRUE, images |-> <<Entry("vyos-stream", <<"vyos.iso">>)>>],
     [exists |-> TRUE, images |-> <<Entry("talos-um760", <<"talos.iso">>)>>]}

\* the loop of load_iso_config: the last entry of that name gives the path
iso_path(images, n) ==
    LET at == {i \in DOMAIN images : images[i].name = n} IN
    IF at = {} THEN <<>>
    ELSE <<"images">> \o images[CHOOSE i \in at : \A j \in at : j <= i].destination

\* load_iso_config returning what it found, without its two checks
load_iso_config_partial(manifest) ==
    IF ~manifest.exists THEN [ok |-> FALSE, vyos_path |-> <<>>, talos_path |-> <<>>]
    ELSE [ok |-> TRUE, vyos_path |-> iso_path(manifest.images, "vyos-stream"),
          talos_path |-> iso_path(manifest.images, "talos-um760")]

\* load_iso_config: both paths, or ok = FALSE where it raises
load_iso_config(manifest) ==
    LET v == iso_path(manifest.images, "vyos-stream")
        t == iso_path(manifest.images, "talos-um760")
    IN IF ~manifest.exists \/ v = <<>> \/ t = <<>>
       THEN [ok |-> FALSE, vyos_path |-> <<>>, talos_path |-> <<>>]
       ELSE [ok |-> TRUE, vyos_path |-> v, talos_path |-> t]

\* Path(p).name
path_name(p) == p[Len(p)]

\* diskutil: the disks it knows and those it lists as external, physical
KnownDisks == {"disk0", "disk4"}
ExternalDisks == {"disk4"}
Identifiers == {"disk0", "disk4", "disk9"}

\* get_device_info: None ("") when diskutil info fails
get_device_info(identifier) == IF identifier \in KnownDisks THEN identifier ELSE ""

\* select_device: --device if given; else the list (plugged: a device is
\* there to list), then whatever identifier was typed at the prompt
select_device(device, plugged, typed) ==
    IF device # "" THEN get_device_info(device)
    ELSE IF ~plugged THEN ""
    ELSE get_device_info(typed)

\* str.lower on the answers that can be typed
Responses == {"yes", "YES", "y", "no"}
lower(r) == CASE r = "YES" -> "yes" [] OTHER -> r

\* confirm_device taking any non-empty answer
confirm_device_lenient(skip_ventoy, yes, answer, accepted) ==
    IF yes THEN TRUE
    ELSE IF ~skip_ventoy THEN answer # ""
    ELSE accepted

\* confirm_device: --yes, else the typed answer (destructive run) or the
\* Confirm prompt (skip-install run)
confirm_device(skip_ventoy, yes, answer, accepted) ==
    IF yes THEN TRUE
    ELSE IF ~skip_ventoy THEN lower(answer) = "yes"
    ELSE accepted

\* int(match.group(1)): the value of a string of decimal digits
DecimalDigits == <<"0", "1", "2", "3", "4", "5", "6", "7", "8", "9">>
digit_value(c) == (CHOOSE i \in DOMAIN DecimalDigits : DecimalDigits[i] = c) - 1
RECURSIVE int(_)
int(digits) ==
    IF digits = <<>> THEN 0
    ELSE 10 * int(SubSeq(digits, 1, Len(digits) - 1)) + digit_value(digits[Len(digits)])

\* format(n, "x"): the hexadecimal digits of n, lowercase, no padding
HexDigits == DecimalDigits \o <<"a", "b", "c", "d", "e", "f">>
RECURSIVE hex(_)
hex(n) == IF n < 16 THEN <<HexDigits[n + 1]>> ELSE hex(n \div 16) \o <<HexDigits[(n % 16) + 1]>>

\* the 0 and the 4 of the format spec 04x: zeros on the left up to 4 characters
RECURSIVE zero_pad_4(_)
zero_pad_4(text) == IF Len(text) >= 4 THEN text ELSE zero_pad_4(<<"0">> \o text)

\* what can be typed at the prompt for a token: well formed in lowercase and
\* in uppercase, the wrong separator, a digit short, a digit long, a
\* character that is no hex digit, nothing
Tokens ==
    {<<"7", "5", "3", "1", ":", "0", "6", "4", "2">>,
     <<"0", "A", "5", "C", ":", "2", "1", "E", "8">>,
     <<"7", "5", "3", "1", "-", "0", "6", "4", "2">>,
     <<"7", "5", "3", "1", ":", "6", "4", "2">>,
     <<"7", "5", "3", "1", ":", "0", "6", "4", "2", "0">>,
     <<"7", "5", "3", "g", ":", "0", "6", "4", "2">>,
     <<>>}

\* a format check that looks at the length and the separator only
matches_separator_only(t) == Len(t) = 9 /\ t[5] = ":"

\* re.match(r"^[0-9a-fA-F]{4}:[0-9a-fA-F]{4}$", vid_pid): the pattern is
\* anchored at both ends, so the text is nine characters, the fifth a colon
\* and every other one in the class [0-9a-fA-F]
matches_vid_pid(t) ==
    LET class == {HexDigits[i] : i \in DOMAIN HexDigits}
                   \cup {"A", "B", "C", "D", "E", "F"}
    IN /\ Len(t) = 9
       /\ \A i \in 1..9 : IF i = 5 THEN t[i] = ":" ELSE t[i] \in class

\* f"{n:x}:{m:x}", the padding left out
format_unpadded(vid, pid) == hex(vid) \o <<":">> \o hex(pid)

\* f"{vid:04x}:{pid:04x}"
format_vid_pid(vid, pid) == zero_pad_4(hex(vid)) \o <<":">> \o zero_pad_4(hex(pid))

\* a block of the ioreg output: the product name it shows and the decimal
\* digits after "idVendor" = and "idProduct" = (<<>> when the key is not there)
Block(product, vendor, prod_id) ==
    [product |-> product, idVendor |-> vendor, idProduct |-> prod_id]

\* the loop over the blocks: the first block that names the device and holds
\* both ids gives the token; <<>> is None
RECURSIVE scan_blocks(_, _)
scan_blocks(blocks, device_name) ==
    IF blocks = <<>> THEN <<>>
    ELSE LET block == Head(blocks) IN
         IF /\ block.product = device_name
            /\ block.idVendor # <<>> /\ block.idProduct # <<>>
         THEN format_vid_pid(int(block.idVendor), int(block.idProduct))
         ELSE scan_blocks(Tail(blocks), device_name)

\* extract_vid_pid: None when diskutil does not know the device or ioreg
\* fails, else the scan of ioreg's blocks for the device's name
extract_vid_pid(known, device_name, ioreg_ok, blocks) ==
    IF ~known THEN <<>>
    ELSE IF ~ioreg_ok THEN <<>>
    ELSE scan_blocks(blocks, device_name)

\* copy_files_to_usb: each file is copied only if it exists
copy_files_to_usb(on_usb, files, vyos_iso, talos_iso, vyos_config) ==
    on_usb
    \cup (IF vyos_iso # "" /\ files["vyos"].there THEN {vyos_iso} ELSE {})
    \cup (IF talos_iso # "" /\ files["talos"].there THEN {talos_iso} ELSE {})
    \cup (IF vyos_config THEN {"gateway.conf"} ELSE {})

\* timeout=300 of main's wait_for_ventoy_install call, time.sleep(5) in its
\* loop, timeout: int = 30 of wait_for_partition
InstallTimeout == 300
PollSleep == 5
PartitionTimeout == 30

\* elapsed = int(time.time() - start_time); if elapsed % 15 == 0 and
\* elapsed > 0: whether the "Still installing" line is logged
heartbeat(elapsed) == elapsed % 15 = 0 /\ elapsed > 0

\* wait_for_ventoy_install where running out of time counts as completion
wait_for_ventoy_install_hopeful(elapsed, timeout, running) ==
    IF ~(elapsed < timeout) THEN "true"
    ELSE IF ~running THEN "true" ELSE "sleep"

\* one turn of the loop of wait_for_ventoy_install, elapsed seconds after
\* start_time: "false" when the bound is used up, else the look at vmrun
\* list: "true" when the session is not listed, else "sleep" (time.sleep(5))
wait_for_ventoy_install_turn(elapsed, timeout, running) ==
    IF ~(elapsed < timeout) THEN "false"
    ELSE IF ~running THEN "true" ELSE "sleep"

\* wait_for_partition with range(timeout + 1)
wait_for_partition_one_more(polls, timeout, found) ==
    IF ~(polls < timeout + 1) THEN "false"
    ELSE IF found THEN "true" ELSE "sleep"

\* wait_for_partition that reports the device ready when the polls run out
wait_for_partition_hopeful(polls, timeout, found) ==
    IF ~(polls < timeout) THEN "true"
    ELSE IF found THEN "true" ELSE "sleep"

\* one turn of for _ in range(timeout), polls turns having been made:
\* "false" when the range is used up, else diskutil info: "true" on exit
\* status 0, else "sleep" (time.sleep(1))
wait_for_partition_turn(polls, timeout, found) ==
    IF ~(polls < timeout) THEN "false"
    ELSE IF found THEN "true" ELSE "sleep"

-----------------------------------------------------------------------------
(* main(): its state when no run is in progress *)

NoOpt == [device |-> "", skip_download |-> FALSE, skip_ventoy |-> FALSE, yes |-> FALSE]
NoHost == [arch |-> "", manifest |-> [exists |-> FALSE, images |-> <<>>], vyos_config |-> FALSE]
NoRun == [usb_device |-> "", answer |-> "", accepted |-> FALSE, confirmed |-> FALSE,
          vyos_path |-> <<>>, talos_path |-> <<>>, vyos_iso |-> "", talos_iso |-> "",
          vid_pid |-> <<>>, image |-> [name |-> <<>>, size |-> 0, mtime |-> 0],
          mount_point |-> FALSE,
          mount |-> [mounted |-> FALSE, reported |-> "none", exists |-> FALSE]]
NoTally == [cleanups |-> 0, stops |-> 0, was_listed |-> FALSE]

\* no polling call made; no concurrent run started
NoPoll == [op |-> "none", timeout |-> 0, at |-> "done", now |-> 0, polls |-> 0,
           polled_at |-> <<>>, seen |-> <<>>, beats |-> <<>>, ret |-> "none"]
NoPair == [at |-> <<>>, owner |-> <<>>, guest |-> 0, harm |-> {}]
NoApply == [fn |-> "none", done |-> TRUE]

\* the guest not booted: the script at its first line, i and USB_DEV unset
\* (0), /tmp/ventoy-status not written, no exit status; present is what the
\* last turn of the device loop found under /dev/sd?, slept the seconds the
\* loop has slept
NoScript == [at |-> "off", i |-> 0, USB_DEV |-> 0, marker |-> "", rc |-> 0,
             exit |-> "none", powered |-> FALSE, present |-> {}, slept |-> 0]

Idle ==
    /\ pc = "idle" /\ opt = NoOpt /\ host = NoHost /\ run = NoRun
    /\ listed = FALSE /\ clock = 0 /\ log = <<>> /\ failed = {}
    /\ pending = "" /\ tally = NoTally /\ usb = {} /\ status = "none"
    /\ poll = NoPoll /\ pair = NoPair /\ call = NoApply /\ script = NoScript

-----------------------------------------------------------------------------
(* SpecDisk: prepare_disk and cleanup in any order on one session directory *)

Formats == {"ova", "qcow2"}
BaseName == <<"ubuntu-noble-cloudimg-arm64", "img">>
OtherName == <<"ubuntu-noble-cloudimg-arm64", "ova">>     \* same stem, same converted path

\* the sources a call is made with: a base source and every source that
\* differs from it in exactly one of name, size, modification time and format
Image(n, s, m) == [name |-> n, size |-> s, mtime |-> m]
Sources ==
    {[image |-> Image(BaseName, 1, 1), fmt |-> f] : f \in Formats}
    \cup {[image |-> Image(OtherName, 1, 1), fmt |-> "qcow2"]}
    \cup {[image |-> Image(BaseName, s, 1), fmt |-> "qcow2"] : s \in 1..MaxStat}
    \cup {[image |-> Image(BaseName, 1, m), fmt |-> "qcow2"] : m \in 1..MaxStat}

\* How the cache stands for a source, read off the directory field by field:
\* "nodisk", "missing" / "unreadable" (the fingerprint file), the first field
\* of the fingerprint that differs from the source, or "fresh".
cache_state(files, image, fmt) ==
    LET vmdk == vmdk_path(image)
        meta == vmdk_metadata_path(vmdk)
    IN CASE ~exists(files, vmdk) -> "nodisk"
         [] ~exists(files, meta) -> "missing"
         [] files[meta] = BadMeta -> "unreadable"
         [] files[meta].src.source_name # image.name -> "name"
         [] files[meta].src.source_size # image.size -> "size"
         [] files[meta].src.source_mtime_ns # image.mtime -> "mtime"
         [] files[meta].src.source_format # fmt -> "format"
         [] OTHER -> "fresh"

\* last: the call, how the cache stood when it was made (was), whether it
\* repeats a successful prepare_disk of the same source (again), its outcome
NoCall == [op |-> "none", image |-> Image(<<>>, 0, 0), fmt |-> "",
           env |-> Env(FALSE, "fail", FALSE, "fail", "error", "none"),
           was |-> "", again |-> FALSE, ret |-> "", ops |-> <<>>]

InitDisk ==
    /\ vm = NoDir
    /\ last = NoCall
    /\ cache = NoCache /\ creds = FALSE /\ fetch = NoFetch
    /\ Idle

\* vmware.prepare_disk(image, fmt): self.vm_dir.mkdir, then the outcome
DiskPrepare ==
    \E s \in Sources :
      \E env \in DiskEnvs(s.fmt) :
        LET r == prepare_disk(vm.files, s.image, s.fmt, env) IN
        /\ vm' = [exists |-> TRUE, files |-> r.files]
        /\ last' = [op |-> "prepare", image |-> s.image, fmt |-> s.fmt,
                    env |-> env,
                    was |-> cache_state(vm.files, s.image, s.fmt),
                    again |-> /\ last.op = "prepare" /\ last.ret = "path"
                              /\ last.image = s.image /\ last.fmt = s.fmt,
                    ret |-> r.ret, ops |-> r.ops]
        /\ UNCHANGED <<cache, creds, fetch, mainVars, poll, pair, call, script>>

\* vmware.cleanup() with no session running
DiskCleanup ==
    /\ vm' = cleanup(vm)
    /\ last' = [NoCall EXCEPT !.op = "cleanup"]
    /\ UNCHANGED <<cache, creds, fetch, mainVars, poll, pair, call, script>>

NextDisk == DiskPrepare \/ DiskCleanup

SpecDisk == InitDisk /\ [][NextDisk]_vars

-----------------------------------------------------------------------------
(* SpecFetch: the three artifacts fetched in any order, run after run *)

InitFetch ==
    /\ cache = NoCache
    /\ creds \in BOOLEAN
    /\ fetch = NoFetch
    /\ vm = NoDir /\ last = NoCall
    /\ Idle

\* download_ubuntu_image: download_http to the image's cache path
FetchHttp ==
    \E ev \in HttpEvents :
      LET r == download_http(cache["ubuntu"], ev) IN
      /\ cache' = [cache EXCEPT !["ubuntu"] = r.file]
      /\ fetch' = [op |-> "download_http", artifact |-> "ubuntu",
                   hit |-> cache["ubuntu"].there, ev |-> ev.kind, ret |-> r.ret,
                   reqs |-> r.reqs]
      /\ UNCHANGED <<creds, vm, last, mainVars, poll, pair, call, script>>

\* download_vyos_iso, download_talos_iso: download_s3 to the ISO's cache path
FetchS3 ==
    \E a \in {"vyos", "talos"}, ev \in S3Events :
      LET r == download_s3(cache[a], creds, ev) IN
      /\ cache' = [cache EXCEPT ![a] = r.file]
      /\ fetch' = [op |-> "download_s3", artifact |-> a,
                   hit |-> cache[a].there, ev |-> ev, ret |-> r.ret, reqs |-> r.reqs]
      /\ UNCHANGED <<creds, vm, last, mainVars, poll, pair, call, script>>

\* the script is run again, no call made yet: load_e2_credentials finds the
\* credentials file, or the environment variables, or neither, as the host
\* now stands
FetchLoadCredentials ==
    /\ creds' = ~creds /\ fetch' = NoFetch
    /\ UNCHANGED <<cache, vm, last, mainVars, poll, pair, call, script>>

NextFetch == FetchHttp \/ FetchS3 \/ FetchLoadCredentials

SpecFetch == InitFetch /\ [][NextFetch]_vars

-----------------------------------------------------------------------------
(* SpecWait: wait_for_ventoy_install and wait_for_partition, any bound *)

\* poll: the call (op, timeout), whether it is in its loop or has returned
\* (at), the seconds since it began (now), and what its polls saw: polled_at[k]
\* is the time of the k-th poll and seen[k] its answer (the session is listed
\* / the partition is there); beats are the elapsed seconds of the "Still
\* installing" lines logged
Polling(op, timeout) ==
    [op |-> op, timeout |-> timeout, at |-> "loop", now |-> 0, polls |-> 0,
     polled_at |-> <<>>, seen |-> <<>>, beats |-> <<>>, ret |-> "none"]

\* the call after a turn that polled, answered `saw`, and took `took` seconds
Polled(saw, took, turn) ==
    [poll EXCEPT !.polls = @ + 1, !.polled_at = Append(@, poll.now),
                 !.seen = Append(@, saw), !.now = @ + took,
                 !.at = IF turn = "sleep" THEN "loop" ELSE "done",
                 !.ret = IF turn = "sleep" THEN "none" ELSE turn]

InitWait ==
    /\ vm = NoDir /\ last = NoCall /\ cache = NoCache /\ creds = FALSE
    /\ fetch = NoFetch /\ Idle

WaitCall ==
    /\ poll.at = "done"
    /\ \/ \E timeout \in 0..MaxWait : poll' = Polling("wait_for_ventoy_install", timeout)
       \/ \E timeout \in 0..MaxPolls : poll' = Polling("wait_for_partition", timeout)
    /\ UNCHANGED <<vm, last, cache, creds, fetch, mainVars, pair, call, script>>

\* a turn of wait_for_ventoy_install: the test of the bound against the
\* clock, vmrun list (lag seconds), the heartbeat on the elapsed whole seconds
\* read after it, time.sleep(5) (5 + nap seconds)
InstallTurn ==
    /\ poll.op = "wait_for_ventoy_install" /\ poll.at = "loop"
    /\ \E running \in BOOLEAN, lag \in 0..MaxLag, nap \in 0..MaxLag :
         LET turn == wait_for_ventoy_install_turn(poll.now, poll.timeout, running) IN
         poll' = CASE turn = "false" -> [poll EXCEPT !.at = "done", !.ret = "false"]
                   [] turn = "true" -> Polled(running, lag, turn)
                   [] OTHER ->
                        [Polled(running, lag + PollSleep + nap, turn) EXCEPT
                           !.beats = IF heartbeat(poll.now + lag)
                                     THEN Append(@, poll.now + lag) ELSE @]
    /\ UNCHANGED <<vm, last, cache, creds, fetch, mainVars, pair, call, script>>

\* a turn of wait_for_partition: the next value of range(timeout), diskutil
\* info (lag seconds), time.sleep(1) (1 + nap seconds)
PartitionTurn ==
    /\ poll.op = "wait_for_partition" /\ poll.at = "loop"
    /\ \E found \in BOOLEAN, lag \in 0..MaxLag, nap \in 0..MaxLag :
         LET turn == wait_for_partition_turn(poll.polls, poll.timeout, found) IN
         poll' = CASE turn = "false" -> [poll EXCEPT !.at = "done", !.ret = "false"]
                   [] turn = "true" -> Polled(found, lag, turn)
                   [] OTHER -> Polled(found, lag + 1 + nap, turn)
    /\ UNCHANGED <<vm, last, cache, creds, fetch, mainVars, pair, call, script>>

NextWait == WaitCall \/ InstallTurn \/ PartitionTurn

\* a call in its loop is scheduled, and its subprocess and its sleep return
SpecWait ==
    InitWait /\ [][NextWait]_vars /\ WF_vars(InstallTurn) /\ WF_vars(PartitionTurn)

-----------------------------------------------------------------------------
(* SpecCalls: load_iso_config and extract_vid_pid, each applied to one input *)

\* the manifests: absent, or any list of up to MaxImages entries, each one of
\* three names with one of three destinations
AllManifests ==
    LET Entries == {Entry(n, d) : n \in {"vyos-stream", "talos-um760", "ubuntu-noble"},
                                  d \in {<<"vyos.iso">>, <<"talos.iso">>,
                                         <<"isos", "vyos.iso">>}}
    IN {NoManifest}
       \cup {[exists |-> TRUE, images |-> images] :
               images \in UNION {[1..k -> Entries] : k \in 0..MaxImages}}

\* the ids ioreg can show, and how it prints one: in decimal
UsbIds == {0, 1, 9, 10, 15, 16, 255, 256, 1602, 4095, 4096, 30001, 65535}
RECURSIVE decimal(_)
decimal(n) ==
    IF n < 10 THEN <<DecimalDigits[n + 1]>>
    ELSE decimal(n \div 10) \o <<DecimalDigits[(n % 10) + 1]>>

\* the outputs of ioreg: one block with any pair of ids, or up to MaxBlocks
\* blocks, of the device or of another, with or without each id
DeviceName == "USB DISK"
IoregOutputs ==
    LET FewIds == {<<>>, decimal(1602), decimal(30001)}
        FewBlocks == {Block(p, v, i) : p \in {DeviceName, "Hub"},
                                       v \in FewIds, i \in FewIds}
    IN {<<Block(DeviceName, decimal(v), decimal(i))>> : v \in UsbIds, i \in UsbIds}
       \cup UNION {[1..k -> FewBlocks] : k \in 0..MaxBlocks}

Apply(fn, arg) == [fn |-> fn, arg |-> arg, done |-> FALSE]

InitCalls ==
    /\ vm = NoDir /\ last = NoCall /\ cache = NoCache /\ creds = FALSE
    /\ fetch = NoFetch /\ poll = NoPoll /\ pair = NoPair /\ script = NoScript
    /\ pc = "idle" /\ opt = NoOpt /\ host = NoHost /\ run = NoRun
    /\ listed = FALSE /\ clock = 0 /\ log = <<>> /\ failed = {}
    /\ pending = "" /\ tally = NoTally /\ usb = {} /\ status = "none"
    /\ call \in {Apply("load_iso_config", m) : m \in AllManifests}
           \cup {Apply("extract_vid_pid",
                       [known |-> k, ioreg_ok |-> ok, blocks |-> b]) :
                   k \in BOOLEAN, ok \in BOOLEAN, b \in IoregOutputs}

LoadIsoConfig ==
    /\ call.fn = "load_iso_config" /\ ~call.done
    /\ call' = [fn |-> call.fn, arg |-> call.arg, done |-> TRUE,
                ret |-> load_iso_config(call.arg)]
    /\ UNCHANGED <<vm, last, cache, creds, fetch, mainVars, poll, pair, script>>

ExtractVidPidCall ==
    /\ call.fn = "extract_vid_pid" /\ ~call.done
    /\ call' = [fn |-> call.fn, arg |-> call.arg, done |-> TRUE,
                ret |-> extract_vid_pid(call.arg.known, DeviceName, call.arg.ioreg_ok,
                                        call.arg.blocks)]
    /\ UNCHANGED <<vm, last, cache, creds, fetch, mainVars, poll, pair, script>>

NextCalls == LoadIsoConfig \/ ExtractVidPidCall

SpecCalls == InitCalls /\ [][NextCalls]_vars

-----------------------------------------------------------------------------
(* SpecGuest: /opt/install-ventoy.sh, which cloud-init runs in the guest *)

\* for i in {1..30}, and the 1000000 of [ "$size" -gt 1000000 ]
GuestTries == 30
MinSectors == 1000000

\* What /dev/sd? can name, in the order the glob gives: the guest's own disk,
\* a removable device of exactly 1000000 sectors, and two USB sticks.
\* removable is the text of /sys/block/<name>/removable.
BlockDevices ==
    <<[block |-> TRUE, removable |-> "0", size |-> 20000000],
      [block |-> TRUE, removable |-> "1", size |-> 1000000],
      [block |-> TRUE, removable |-> "1", size |-> 15000000],
      [block |-> TRUE, removable |-> "1", size |-> 60000000]>>

\* the inner loop without the test of the size
first_removable(present) ==
    LET usable == {d \in present :
                     BlockDevices[d].block /\ BlockDevices[d].removable = "1"}
    IN IF usable = {} THEN 0 ELSE CHOOSE d \in usable : \A e \in usable : d <= e

\* the inner loop over the devices that are there: the first that is a block
\* device, removable and larger than 1000000 sectors (break 2); 0 when the
\* loop runs out
first_usable(present) ==
    LET usable == {d \in present :
                     /\ BlockDevices[d].block
                     /\ BlockDevices[d].removable = "1"
                     /\ BlockDevices[d].size > MinSectors}
    IN IF usable = {} THEN 0 ELSE CHOOSE d \in usable : \A e \in usable : d <= e

\* the guest has booted and cloud-init starts the script
InitGuest ==
    /\ script = [NoScript EXCEPT !.at = "download", !.powered = TRUE]
    /\ vm = NoDir /\ last = NoCall /\ cache = NoCache /\ creds = FALSE
    /\ fetch = NoFetch /\ poll = NoPoll /\ pair = NoPair /\ call = NoApply
    /\ pc = "idle" /\ opt = NoOpt /\ host = NoHost /\ run = NoRun
    /\ listed = FALSE /\ clock = 0 /\ log = <<>> /\ failed = {}
    /\ pending = "" /\ tally = NoTally /\ usb = {} /\ status = "none"

\* set -e: the script ends at once with the status of a command that failed
errexit == [script EXCEPT !.at = "done", !.exit = "errexit"]

\* wget, tar xzf, rm: any of them failing ends the script under set -e
GuestDownload ==
    /\ script.at = "download"
    /\ \E wget_ok \in BOOLEAN, tar_ok \in BOOLEAN :
         script' = IF wget_ok /\ tar_ok
                   THEN [script EXCEPT !.at = "scan", !.i = 1]
                   ELSE errexit
    /\ UNCHANGED <<vm, last, cache, creds, fetch, mainVars, poll, pair, call>>

\* one turn of for i in {1..30}: the devices that are there now are looked at
\* in order; a usable one ends both loops, else sleep 1 and the next turn
GuestScan ==
    /\ script.at = "scan"
    /\ \E present \in SUBSET DOMAIN BlockDevices :
         LET dev == first_usable(present) IN
         script' = IF dev # 0
                   THEN [script EXCEPT !.present = present, !.USB_DEV = dev,
                                       !.at = "check"]
                   ELSE IF script.i < GuestTries
                   THEN [script EXCEPT !.present = present, !.i = script.i + 1,
                                       !.slept = script.slept + 1]
                   ELSE [script EXCEPT !.present = present, !.at = "check",
                                       !.slept = script.slept + 1]
    /\ UNCHANGED <<vm, last, cache, creds, fetch, mainVars, poll, pair, call>>

\* if [ -z "$USB_DEV" ]: the marker is written and the script exits 1
GuestCheck ==
    /\ script.at = "check"
    /\ script' = IF script.USB_DEV = 0
                 THEN [script EXCEPT !.marker = "VENTOY_INSTALL_FAILED",
                                     !.exit = "1", !.at = "done"]
                 ELSE [script EXCEPT !.at = "install"]
    /\ UNCHANGED <<vm, last, cache, creds, fetch, mainVars, poll, pair, call>>

\* echo "y" | ./Ventoy2Disk.sh -I "$USB_DEV": the pipeline's status is the
\* installer's, and it is a plain statement, so set -e ends the script on a
\* non-zero status before the test of $? is reached
GuestInstall ==
    /\ script.at = "install"
    /\ \E rc \in {0, 1} :
         script' = IF rc # 0 THEN [errexit EXCEPT !.rc = rc]
                   ELSE [script EXCEPT !.rc = rc, !.at = "report"]
    /\ UNCHANGED <<vm, last, cache, creds, fetch, mainVars, poll, pair, call>>

\* if [ $? -eq 0 ]: marker, sleep 2, poweroff; else: marker, exit 1
GuestReport ==
    /\ script.at = "report"
    /\ script' = IF script.rc = 0
                 THEN [script EXCEPT !.marker = "VENTOY_INSTALL_SUCCESS",
                                     !.powered = FALSE, !.exit = "0", !.at = "done"]
                 ELSE [script EXCEPT !.marker = "VENTOY_INSTALL_FAILED",
                                     !.exit = "1", !.at = "done"]
    /\ UNCHANGED <<vm, last, cache, creds, fetch, mainVars, poll, pair, call>>

NextGuest ==
    GuestDownload \/ GuestScan \/ GuestCheck \/ GuestInstall \/ GuestReport

SpecGuest == InitGuest /\ [][NextGuest]_vars

-----------------------------------------------------------------------------
(* Spec: one run of main() *)

\* the session directories earlier runs leave behind: none, a converted disk
\* with its fingerprint, or what a failed conversion and cleanup leave
EarlierImage(arch) == Image(image_name(arch), FileChunks, 1)
GoodEnv(arch) ==
    IF arch = "arm64" THEN Env(TRUE, "ok", FALSE, "fail", "error", "none")
    ELSE Env(FALSE, "fail", TRUE, "ok", "error", "none")
BadEnv(arch) ==
    IF arch = "arm64" THEN Env(TRUE, "fail_partial", FALSE, "fail", "error", "none")
    ELSE Env(FALSE, "fail", TRUE, "fail_partial", "error", "none")
InitialSessions(arch) ==
    {NoDir}
    \cup {cleanup([exists |-> TRUE,
                   files |-> prepare_disk(NoFiles, EarlierImage(arch),
                                          image_format(arch), e).files])
            : e \in {GoodEnv(arch), BadEnv(arch)}}

\* the caches earlier runs leave behind: an ISO is absent or complete; the
\* VM image may also be the partial file of an interrupted download
InitialCaches ==
    {c \in [Artifacts -> {NoFile, File(FileChunks - 1), Whole}] :
        c["vyos"] # File(FileChunks - 1) /\ c["talos"] # File(FileChunks - 1)}

Init ==
    /\ pc = "check_prerequisites"
    /\ opt \in [device : {""} \cup Identifiers, skip_download : BOOLEAN,
                skip_ventoy : BOOLEAN, yes : BOOLEAN]
    /\ host \in [arch : Archs, manifest : Manifests, vyos_config : BOOLEAN]
    /\ cache \in InitialCaches
    /\ vm \in InitialSessions(host.arch)
    /\ creds = FALSE /\ run = NoRun /\ listed = FALSE /\ clock = 0
    /\ log = <<>> /\ failed = {} /\ pending = "" /\ tally = NoTally
    /\ usb = {} /\ status = "none"
    /\ last = NoCall /\ fetch = NoFetch /\ poll = NoPoll /\ pair = NoPair
    /\ call = NoApply /\ script = NoScript

\* the stage ran and main() goes on
Go(stage, next) ==
    /\ pc' = next /\ log' = Append(log, stage)
    /\ UNCHANGED <<failed, status, pending>>

\* the stage failed outside the try block: raise SystemExit(1), or an
\* exception nothing catches
Exit1(stage) ==
    /\ pc' = "exit" /\ status' = "nonzero" /\ log' = Append(log, stage)
    /\ failed' = failed \cup {stage}
    /\ UNCHANGED pending

\* a failure inside a try block that has no finally clause
throw_past_finally(stage, exc) ==
    /\ pc' = "exit" /\ pending' = exc /\ log' = Append(log, stage)
    /\ failed' = failed \cup {stage}
    /\ status' = "nonzero"

\* a failure inside the try block that the finally clause swallows
throw_swallowed(stage, exc) ==
    /\ pc' = "cleanup" /\ pending' = "" /\ log' = Append(log, stage)
    /\ failed' = failed \cup {stage}
    /\ UNCHANGED status

\* the stage failed inside the try block: the finally clause runs next
Throw(stage, exc) ==
    /\ pc' = "cleanup" /\ pending' = exc /\ log' = Append(log, stage)
    /\ failed' = failed \cup {stage}
    /\ UNCHANGED status

CheckPrerequisites ==
    /\ pc = "check_prerequisites"
    /\ \E darwin \in BOOLEAN, fusion \in BOOLEAN, qemu \in BOOLEAN :
         IF check_prerequisites(opt.skip_ventoy, host.arch, darwin, fusion, qemu,
                                host.vyos_config)
         THEN Go("prereq", IF opt.skip_download THEN "managers" ELSE "credentials")
         ELSE Exit1("prereq")
    /\ UNCHANGED <<vm, last, cache, creds, fetch, poll, pair, call, script, opt, host, run, listed, clock, tally, usb>>

\* load_e2_credentials: FileNotFoundError and RuntimeError are caught and
\* exit 1; the ValueError of a missing key is not caught and ends the run too
LoadCredentials ==
    /\ pc = "credentials"
    /\ \E out \in {"ok", "no_file", "no_sops", "decrypt", "missing_key"} :
         IF out = "ok"
         THEN creds' = TRUE /\ Go("credentials", "managers")
         ELSE creds' = creds /\ Exit1("credentials")
    /\ UNCHANGED <<vm, last, cache, fetch, poll, pair, call, script, opt, host, run, listed, clock, tally, usb>>

\* USBDeviceManager(), DownloadManager(credentials): the cache directories
\* are made, the ISO paths loaded; a failing load leaves both paths empty
Managers ==
    /\ pc = "managers"
    /\ LET cfg == load_iso_config(host.manifest) IN
       run' = [run EXCEPT !.vyos_path = cfg.vyos_path, !.talos_path = cfg.talos_path]
    /\ pc' = "select_device"
    /\ UNCHANGED <<vm, last, cache, creds, fetch, poll, pair, call, script, opt, host, listed, clock, log, failed,
                   pending, tally, usb, status>>

SelectDevice ==
    /\ pc = "select_device"
    /\ \E plugged \in BOOLEAN, typed \in Identifiers :
         LET d == select_device(opt.device, plugged, typed) IN
         IF d = "" THEN run' = run /\ Exit1("select")
         ELSE run' = [run EXCEPT !.usb_device = d] /\ Go("select", "confirm_device")
    /\ UNCHANGED <<vm, last, cache, creds, fetch, poll, pair, call, script, opt, host, listed, clock, tally, usb>>

\* confirm_device: no prompt under --yes; the typed answer for a destructive
\* run; the Confirm prompt for a skip-install run
ConfirmDevice ==
    /\ pc = "confirm_device"
    /\ \E answer \in IF opt.yes \/ opt.skip_ventoy THEN {""} ELSE Responses,
          accepted \in IF opt.yes \/ ~opt.skip_ventoy THEN {FALSE} ELSE BOOLEAN :
         LET c == confirm_device(opt.skip_ventoy, opt.yes, answer, accepted) IN
         /\ run' = [run EXCEPT !.answer = answer, !.accepted = accepted, !.confirmed = c]
         /\ IF c THEN Go("confirm", IF opt.skip_download THEN "resolve" ELSE "vyos")
            ELSE Exit1("confirm")
    /\ UNCHANGED <<vm, last, cache, creds, fetch, poll, pair, call, script, opt, host, listed, clock, tally, usb>>

\* download_vyos_iso / download_talos_iso: None without a path, else the
\* outcome of download_s3 to the ISO cache
download_iso(path, file, has_creds, ev) ==
    IF path = <<>> THEN Fetched(file, "false", 0) ELSE download_s3(file, has_creds, ev)

\* main() running the install whatever --skip-ventoy says
after_isos_always_install == "vid_pid"

\* main() with the test of --skip-ventoy the wrong way round
after_isos_inverted == IF opt.skip_ventoy THEN "vid_pid" ELSE "partition"

\* if not skip_ventoy: the install; else straight to the partition wait
AfterIsos == IF opt.skip_ventoy THEN "partition" ELSE "vid_pid"

\* main() asking for the VyOS ISO again after a failed download
download_vyos_retrying ==
    /\ pc = "vyos"
    /\ \E ev \in S3Events :
         LET r == download_iso(run.vyos_path, cache["vyos"], creds, ev) IN
         /\ cache' = [cache EXCEPT !["vyos"] = r.file]
         /\ IF r.ret = "true"
            THEN run' = [run EXCEPT !.vyos_iso = path_name(run.vyos_path)]
                 /\ Go("vyos", "talos")
            ELSE run' = run /\ Go("vyos", "vyos")
    /\ UNCHANGED <<vm, last, creds, fetch, poll, pair, call, script, opt, host, listed, clock, tally, usb>>

DownloadVyos ==
    /\ pc = "vyos"
    /\ \E ev \in S3Events :
         LET r == download_iso(run.vyos_path, cache["vyos"], creds, ev) IN
         /\ cache' = [cache EXCEPT !["vyos"] = r.file]
         /\ IF r.ret = "true"
            THEN run' = [run EXCEPT !.vyos_iso = path_name(run.vyos_path)]
                 /\ Go("vyos", "talos")
            ELSE run' = run /\ Exit1("vyos")
    /\ UNCHANGED <<vm, last, creds, fetch, poll, pair, call, script, opt, host, listed, clock, tally, usb>>

DownloadTalos ==
    /\ pc = "talos"
    /\ \E ev \in S3Events :
         LET r == download_iso(run.talos_path, cache["talos"], creds, ev) IN
         /\ cache' = [cache EXCEPT !["talos"] = r.file]
         /\ IF r.ret = "true"
            THEN run' = [run EXCEPT !.talos_iso = path_name(run.talos_path)]
                 /\ Go("talos", AfterIsos)
            ELSE run' = run /\ Exit1("talos")
    /\ UNCHANGED <<vm, last, creds, fetch, poll, pair, call, script, opt, host, listed, clock, tally, usb>>

\* the skip-download branch without its two existence checks
resolve_isos_unchecked(vyos_path, talos_path, manifest, files) ==
    LET cfg == IF vyos_path = <<>> \/ talos_path = <<>>
               THEN load_iso_config(manifest)
               ELSE [ok |-> TRUE, vyos_path |-> vyos_path, talos_path |-> talos_path]
    IN IF ~cfg.ok THEN [ok |-> FALSE, vyos_iso |-> "", talos_iso |-> ""]
       ELSE [ok |-> TRUE, vyos_iso |-> path_name(cfg.vyos_path),
             talos_iso |-> path_name(cfg.talos_path)]

\* the skip-download branch content with one of the two ISOs in the cache
resolve_isos_either(vyos_path, talos_path, manifest, files) ==
    LET cfg == IF vyos_path = <<>> \/ talos_path = <<>>
               THEN load_iso_config(manifest)
               ELSE [ok |-> TRUE, vyos_path |-> vyos_path, talos_path |-> talos_path]
    IN IF ~cfg.ok THEN [ok |-> FALSE, vyos_iso |-> "", talos_iso |-> ""]
       ELSE [ok |-> files["vyos"].there \/ files["talos"].there,
             vyos_iso |-> path_name(cfg.vyos_path),
             talos_iso |-> path_name(cfg.talos_path)]

\* the skip-download branch of main(): the paths (loaded again if the first
\* load failed), then both ISOs must be in the cache
resolve_isos(vyos_path, talos_path, manifest, files) ==
    LET cfg == IF vyos_path = <<>> \/ talos_path = <<>>
               THEN load_iso_config(manifest)
               ELSE [ok |-> TRUE, vyos_path |-> vyos_path, talos_path |-> talos_path]
    IN IF ~cfg.ok THEN [ok |-> FALSE, vyos_iso |-> "", talos_iso |-> ""]
       ELSE [ok |-> files["vyos"].there /\ files["talos"].there,
             vyos_iso |-> path_name(cfg.vyos_path),
             talos_iso |-> path_name(cfg.talos_path)]

ResolveIsos ==
    /\ pc = "resolve"
    /\ LET r == resolve_isos(run.vyos_path, run.talos_path, host.manifest, cache) IN
       IF r.ok
       THEN run' = [run EXCEPT !.vyos_iso = r.vyos_iso, !.talos_iso = r.talos_iso]
            /\ Go("resolve", AfterIsos)
       ELSE run' = run /\ Exit1("resolve")
    /\ UNCHANGED <<vm, last, cache, creds, fetch, poll, pair, call, script, opt, host, listed, clock, tally, usb>>

\* extract_vid_pid, and the manual entry with its format check when it fails
ExtractVidPid ==
    /\ pc = "vid_pid"
    /\ \E found \in BOOLEAN, typed \in Tokens :
         IF found
         THEN run' = [run EXCEPT !.vid_pid = format_vid_pid(30001, 1602)]
              /\ Go("vidpid", "unmount")
         ELSE IF matches_vid_pid(typed)
         THEN run' = [run EXCEPT !.vid_pid = typed] /\ Go("vidpid", "unmount")
         ELSE run' = run /\ Exit1("vidpid")
    /\ UNCHANGED <<vm, last, cache, creds, fetch, poll, pair, call, script, opt, host, listed, clock, tally, usb>>

\* main() giving up when usb_mgr.unmount(...) returns False
unmount_checked ==
    /\ pc = "unmount"
    /\ \E ok \in BOOLEAN :
         IF ok THEN Go("unmount", "ubuntu") ELSE Exit1("unmount")
    /\ UNCHANGED <<vm, last, cache, creds, fetch, poll, pair, call, script, opt, host, run, listed, clock,
                   tally, usb>>

\* usb_mgr.unmount(...): the result is not looked at
Unmount ==
    /\ pc = "unmount"
    /\ \E ok \in BOOLEAN :
         failed' = IF ok THEN failed ELSE failed \cup {"unmount"}
    /\ pc' = "ubuntu" /\ log' = Append(log, "unmount")
    /\ UNCHANGED <<vm, last, cache, creds, fetch, poll, pair, call, script, opt, host, run, listed, clock, pending,
                   tally, usb, status>>

\* what leaves a call that did not return a value
Raised(ret) == IF ret = "false" THEN "exit" ELSE ret

\* a main() that puts the base image under --skip-download too: no fetch,
\* the cached file or nothing
download_ubuntu_unless_skipped ==
    /\ pc = "ubuntu"
    /\ IF opt.skip_download
       THEN /\ cache' = cache
            /\ IF cache["ubuntu"].there
               THEN /\ run' = [run EXCEPT !.image =
                                 Image(image_name(host.arch), cache["ubuntu"].chunks, 1)]
                    /\ Go("ubuntu_cached", "prepare_disk")
               ELSE run' = run /\ Throw("ubuntu_cached", "exit")
       ELSE \E ev \in HttpEvents :
              LET r == download_http(cache["ubuntu"], ev) IN
              /\ cache' = [cache EXCEPT !["ubuntu"] = r.file]
              /\ IF r.ret = "true"
                 THEN /\ run' = [run EXCEPT !.image =
                                   Image(image_name(host.arch), r.file.chunks,
                                         IF cache["ubuntu"].there THEN 1 ELSE 2)]
                      /\ Go("ubuntu", "prepare_disk")
                 ELSE run' = run /\ Throw("ubuntu", Raised(r.ret))
    /\ UNCHANGED <<vm, last, creds, fetch, poll, pair, call, script, opt, host, listed, clock, tally, usb>>

\* download_ubuntu_image, the first statement of the try block; a file
\* written now has the later modification time
DownloadUbuntu ==
    /\ pc = "ubuntu"
    /\ \E ev \in HttpEvents :
         LET r == download_http(cache["ubuntu"], ev) IN
         /\ cache' = [cache EXCEPT !["ubuntu"] = r.file]
         /\ IF r.ret = "true"
            THEN /\ run' = [run EXCEPT !.image =
                              Image(image_name(host.arch), r.file.chunks,
                                    IF cache["ubuntu"].there THEN 1 ELSE 2)]
                 /\ Go("ubuntu", "prepare_disk")
            ELSE run' = run /\ Throw("ubuntu", Raised(r.ret))
    /\ UNCHANGED <<vm, last, creds, fetch, poll, pair, call, script, opt, host, listed, clock, tally, usb>>

\* vmware.prepare_disk(ubuntu_image, image_format); the qemu-img that
\* check_prerequisites found is still there
PrepareDisk ==
    /\ pc = "prepare_disk"
    /\ \E env \in {e \in DiskEnvs(image_format(host.arch)) :
                     host.arch = "arm64" => e.qemu_present} :
         LET r == prepare_disk(vm.files, run.image, image_format(host.arch), env) IN
         /\ vm' = [exists |-> TRUE, files |-> r.files]
         /\ IF r.ret = "path" THEN Go("prepare", "cloud_init")
            ELSE Throw("prepare", r.ret)
    /\ UNCHANGED <<last, cache, creds, fetch, poll, pair, call, script, opt, host, run, listed, clock, tally, usb>>

CreateCloudInitIso ==
    /\ pc = "cloud_init"
    /\ \E hdiutil_ok \in BOOLEAN :
         LET r == create_cloud_init_iso(vm.files, hdiutil_ok) IN
         /\ vm' = [vm EXCEPT !.files = r.files]
         /\ IF r.ret = "path" THEN Go("payload", "generate_vmx")
            ELSE Throw("payload", r.ret)
    /\ UNCHANGED <<last, cache, creds, fetch, poll, pair, call, script, opt, host, run, listed, clock, tally, usb>>

GenerateVmx ==
    /\ pc = "generate_vmx"
    /\ \E template_exists \in BOOLEAN :
         LET r == generate_vmx(vm.files, template_exists) IN
         /\ vm' = [vm EXCEPT !.files = r.files]
         /\ IF r.ret = "path" THEN Go("description", "start_vm")
            ELSE Throw("description", r.ret)
    /\ UNCHANGED <<last, cache, creds, fetch, poll, pair, call, script, opt, host, run, listed, clock, tally, usb>>

\* main() entering the wait whatever start_vm returned
start_vm_unchecked ==
    /\ pc = "start_vm"
    /\ \E ok \in BOOLEAN :
         /\ listed' = ok
         /\ failed' = IF ok THEN failed ELSE failed \cup {"start"}
    /\ pc' = "wait" /\ log' = Append(log, "start")
    /\ UNCHANGED <<vm, last, cache, creds, fetch, poll, pair, call, script, opt, host, run, clock, tally, usb,
                   status, pending>>

\* start_vm: vmrun start; a started session is listed as running
StartVm ==
    /\ pc = "start_vm"
    /\ \E ok \in BOOLEAN :
         /\ listed' = ok
         /\ IF ok THEN Go("start", "wait") ELSE Throw("start", "exit")
    /\ UNCHANGED <<vm, last, cache, creds, fetch, poll, pair, call, script, opt, host, run, clock, tally, usb>>

\* the guest powers off (the install script has ended, or the guest crashed)
GuestPowerOff ==
    /\ pc = "wait" /\ listed
    /\ listed' = FALSE
    /\ UNCHANGED <<vm, last, cache, creds, fetch, poll, pair, call, script, pc, opt, host, run, clock, log, failed,
                   pending, tally, usb, status>>

\* one turn of the loop of wait_for_ventoy_install(timeout=300): the bound,
\* the look at vmrun list, the sleep; interrupted: KeyboardInterrupt in sleep
WaitForVentoyInstall ==
    /\ pc = "wait"
    /\ \E interrupted \in BOOLEAN :
         LET turn == wait_for_ventoy_install_turn(clock, InstallTimeout, listed) IN
         CASE turn = "true" -> clock' = 0 /\ Go("wait", "cleanup")
           [] turn = "false" -> clock' = 0 /\ Throw("wait", "exit")
           [] OTHER ->
                IF interrupted THEN clock' = 0 /\ Throw("wait", "interrupt")
                ELSE /\ clock' = clock + PollSleep
                     /\ UNCHANGED <<pc, log, failed, pending, status>>
    /\ UNCHANGED <<vm, last, cache, creds, fetch, poll, pair, call, script, opt, host, run, listed, tally, usb>>

\* the finally clause: vmware.cleanup().  stop_vm sends a soft stop if the
\* session is listed, and the guest may or may not be gone 2 seconds later;
\* then the pending exception, if any, ends the run
Cleanup ==
    /\ pc = "cleanup"
    /\ tally' = [cleanups |-> tally.cleanups + 1,
                 stops |-> tally.stops + (IF listed THEN 1 ELSE 0),
                 was_listed |-> listed]
    /\ listed' \in (IF listed THEN BOOLEAN ELSE {FALSE})
    /\ vm' = cleanup(vm)
    /\ log' = Append(log, "cleanup")
    /\ IF pending = "" THEN pc' = "partition" /\ status' = status
       ELSE pc' = "exit" /\ status' = "nonzero"
    /\ UNCHANGED <<last, cache, creds, fetch, poll, pair, call, script, opt, host, run, clock, failed, pending, usb>>

\* one turn of the loop of wait_for_partition: diskutil info, then sleep(1)
WaitForPartition ==
    /\ pc = "partition"
    /\ \E found \in BOOLEAN :
         LET turn == wait_for_partition_turn(clock, PartitionTimeout, found) IN
         CASE turn = "true" -> clock' = 0 /\ Go("partition", "mount")
           [] turn = "false" -> clock' = 0 /\ Exit1("partition")
           [] OTHER -> clock' = clock + 1 /\ UNCHANGED <<pc, log, failed, pending, status>>
    /\ UNCHANGED <<vm, last, cache, creds, fetch, poll, pair, call, script, opt, host, run, listed, tally, usb>>

\* mount_partition with Path(mount_point).exists() left out
mount_partition_unchecked(mounted, reported, point_exists) ==
    IF ~mounted THEN FALSE ELSE reported = "path"

\* mount_partition: None (FALSE) when diskutil mount exits non-zero; else the
\* "Mount Point:" line of diskutil info, which is not there ("none"), has
\* nothing after the colon ("empty") or names a path ("path"): the path is
\* returned only if it exists
mount_partition(mounted, reported, point_exists) ==
    IF ~mounted THEN FALSE
    ELSE reported = "path" /\ point_exists

\* run.mount is what diskutil did during the call
MountPartition ==
    /\ pc = "mount"
    /\ \E mounted \in BOOLEAN, reported \in {"none", "empty", "path"},
          point_exists \in BOOLEAN :
         LET did == [mounted |-> mounted, reported |-> reported,
                     exists |-> point_exists] IN
         IF mount_partition(mounted, reported, point_exists)
         THEN run' = [run EXCEPT !.mount_point = TRUE, !.mount = did]
              /\ Go("mount", "copy")
         ELSE run' = [run EXCEPT !.mount = did] /\ Exit1("mount")
    /\ UNCHANGED <<vm, last, cache, creds, fetch, poll, pair, call, script, opt, host, listed, clock, tally, usb>>

\* copy_files_to_usb; written: shutil.copy2 did not raise
CopyFiles ==
    /\ pc = "copy"
    /\ \E written \in BOOLEAN :
         IF written
         THEN /\ usb' = copy_files_to_usb(usb, cache, run.vyos_iso, run.talos_iso,
                                          host.vyos_config)
              /\ Go("copy", "eject")
         ELSE usb' = usb /\ Exit1("copy")
    /\ UNCHANGED <<vm, last, cache, creds, fetch, poll, pair, call, script, opt, host, run, listed, clock, tally>>

\* usb_mgr.eject(...): the result is not looked at; main() returns
Eject ==
    /\ pc = "eject"
    /\ \E ok \in BOOLEAN :
         failed' = IF ok THEN failed ELSE failed \cup {"eject"}
    /\ pc' = "exit" /\ status' = "zero" /\ log' = Append(log, "eject")
    /\ UNCHANGED <<vm, last, cache, creds, fetch, poll, pair, call, script, opt, host, run, listed, clock, pending,
                   tally, usb>>

Next ==
    \/ CheckPrerequisites \/ LoadCredentials \/ Managers \/ SelectDevice
    \/ ConfirmDevice \/ DownloadVyos \/ DownloadTalos \/ ResolveIsos
    \/ ExtractVidPid \/ Unmount \/ DownloadUbuntu \/ PrepareDisk
    \/ CreateCloudInitIso \/ GenerateVmx \/ StartVm \/ GuestPowerOff
    \/ WaitForVentoyInstall \/ Cleanup \/ WaitForPartition \/ MountPartition
    \/ CopyFiles \/ Eject

Spec == Init /\ [][Next]_vars

-----------------------------------------------------------------------------
(* SpecPair: the install stage of two runs of main() at once *)

\* Two runs, 1 and 2, each for a device of its own, on one host.  Every
\* VMwareManager has the same vm_name, so both runs have the same vm_dir and
\* the same vmx_path: vm is the one session directory and vmrun list has one
\* line for it.  pair.at[i] is the stage run i is at, pair.owner[n] the run
\* that last wrote file n, pair.guest the run that started the listed VM (0:
\* none listed), pair.harm what a run has done to the other while the other
\* was still in its install stage.
Other(i) == 3 - i
Busy(i) == pair.at[i] # "done"

\* run i leaves the directory as `files` with `ops` done, having written the
\* names in `wrote`, and goes to `next`
PairStep(i, files, wrote, next, guest, ops) ==
    LET gone == DOMAIN vm.files \ DOMAIN files
        mine(n) == n \in wrote \/ n \notin DOMAIN pair.owner
        theirs(names) == \E n \in names \cap DOMAIN pair.owner :
                            pair.owner[n] = Other(i) /\ Busy(Other(i))
    IN /\ vm' = [exists |-> TRUE, files |-> files]
       /\ pair' = [at |-> [pair.at EXCEPT ![i] = next],
                   owner |-> [n \in DOMAIN files |-> IF mine(n) THEN i ELSE pair.owner[n]],
                   guest |-> guest,
                   harm |-> pair.harm
                            \cup (IF theirs(wrote) THEN {"overwrote"} ELSE {})
                            \cup (IF theirs(gone) THEN {"deleted"} ELSE {})
                            \cup {op \in ops : Busy(Other(i))}]
       /\ UNCHANGED <<last, cache, creds, fetch, mainVars, poll, call, script>>

InitPair ==
    /\ vm \in InitialSessions("arm64")
    /\ last = NoCall /\ cache = NoCache /\ creds = FALSE /\ fetch = NoFetch
    /\ pc = "idle" /\ opt = NoOpt /\ host = NoHost /\ run = NoRun
    /\ listed = FALSE /\ clock = 0 /\ log = <<>> /\ failed = {}
    /\ pending = "" /\ tally = NoTally /\ usb = {} /\ status = "none"
    /\ poll = NoPoll /\ call = NoApply /\ script = NoScript
    /\ pair = [at |-> <<"prepare_disk", "prepare_disk">>,
               owner |-> [n \in DOMAIN vm.files |-> 0], guest |-> 0, harm |-> {}]

\* prepare_disk on the session directory: the cached disk, or a conversion
PairPrepareDisk(i) ==
    /\ pair.at[i] = "prepare_disk"
    /\ LET image == EarlierImage("arm64")
           r == prepare_disk(vm.files, image, "qcow2", GoodEnv("arm64"))
           disk == vmdk_path(image)
       IN PairStep(i, r.files,
                   IF r.ops = <<>> THEN {} ELSE {disk, vmdk_metadata_path(disk)},
                   "cloud_init", pair.guest, {})

PairCreateCloudInitIso(i) ==
    /\ pair.at[i] = "cloud_init"
    /\ PairStep(i, create_cloud_init_iso(vm.files, TRUE).files, {CloudInitIso},
                "generate_vmx", pair.guest, {})

PairGenerateVmx(i) ==
    /\ pair.at[i] = "generate_vmx"
    /\ PairStep(i, generate_vmx(vm.files, TRUE).files, {VmxPath}, "start_vm",
                pair.guest, {})

\* vmrun start vmx_path: when the description's VM is already running the
\* tool either refuses or reports it started
PairStartVm(i) ==
    /\ pair.at[i] = "start_vm"
    /\ \E ok \in IF pair.guest = 0 THEN {TRUE} ELSE BOOLEAN :
         PairStep(i, vm.files, {}, IF ok THEN "wait" ELSE "cleanup",
                  IF pair.guest = 0 THEN i ELSE pair.guest, {})

\* the guest powers off when its install script has ended
PairGuestPowerOff ==
    /\ pair.guest # 0
    /\ pair' = [pair EXCEPT !.guest = 0]
    /\ UNCHANGED <<vm, last, cache, creds, fetch, mainVars, poll, call, script>>

\* a poll of wait_for_ventoy_install: str(self.vmx_path) in the output of
\* vmrun list; the VM listed may be the one the other run started
PairWait(i) ==
    /\ pair.at[i] = "wait"
    /\ \E timed_out \in BOOLEAN :
         PairStep(i, vm.files, {},
                  IF pair.guest = 0 \/ timed_out THEN "cleanup" ELSE "wait", pair.guest,
                  IF pair.guest = Other(i) THEN {"misread"} ELSE {})

\* cleanup: stop_vm stops the VM listed under vmx_path, then everything but
\* *.vmdk and *.vmdk.meta.json is removed
PairCleanup(i) ==
    /\ pair.at[i] = "cleanup"
    /\ PairStep(i, cleanup_files(vm.files), {}, "done", 0,
                IF pair.guest = Other(i) THEN {"stopped"} ELSE {})

NextPair ==
    \/ \E i \in {1, 2} :
         \/ PairPrepareDisk(i) \/ PairCreateCloudInitIso(i) \/ PairGenerateVmx(i)
         \/ PairStartVm(i) \/ PairWait(i) \/ PairCleanup(i)
    \/ PairGuestPowerOff

SpecPair == InitPair /\ [][NextPair]_vars

-----------------------------------------------------------------------------
(* Claims on main() (Spec) *)

InLog(stage) == \E i \in DOMAIN log : log[i] = stage
Ended == pc = "exit"

\* the names cleanup leaves in the session directory of this host
SessionDisk == vmdk_path([name |-> image_name(host.arch)])
SessionMeta == vmdk_metadata_path(SessionDisk)
OnlyCacheFilesLeft == DOMAIN vm.files \subseteq {SessionDisk, SessionMeta, ImportedDisk}

\* C1: once the try block is entered (the device was unmounted), cleanup runs
\* exactly once before the run ends, on every way out; cleanup sends a soft
\* stop exactly when the session is listed as running; after it the session
\* directory holds nothing but *.vmdk and *.vmdk.meta.json files.
C1_CleanupExactlyOnce ==
    /\ tally.cleanups <= 1
    /\ (Ended /\ InLog("unmount")) => tally.cleanups = 1
    /\ tally.cleanups = 0 => tally.stops = 0
    /\ tally.cleanups = 1 => (tally.stops = 1 <=> tally.was_listed)
    /\ (tally.cleanups = 1 /\ InLog("cleanup")) => OnlyCacheFilesLeft

\* an interrupt in the polling loop, with the session still running
C1_Witness ==
    /\ Ended /\ pending = "interrupt" /\ "wait" \in failed
    /\ tally = [cleanups |-> 1, stops |-> 1, was_listed |-> TRUE]
    /\ exists(vm.files, SessionDisk)

VmStages == {"prepare", "payload", "description", "start", "wait"}

\* C2 as claimed: after a run in which any stage of the VM controller failed,
\* no working file is left and the converted disk and its fingerprint are
\* both present.
C2_Original ==
    (Ended /\ failed \cap VmStages # {})
    => /\ OnlyCacheFilesLeft
       /\ exists(vm.files, SessionDisk) /\ exists(vm.files, SessionMeta)

\* C2 as amended: after a run in which a stage of the VM controller failed,
\* no working file is left; and if the failing stage came after the disk
\* preparation, the converted disk and its fingerprint are both present.
C2_CleanupOnFailure ==
    (Ended /\ failed \cap VmStages # {})
    => /\ OnlyCacheFilesLeft
       /\ "prepare" \notin failed
          => exists(vm.files, SessionDisk) /\ exists(vm.files, SessionMeta)

\* the start request failed after the payload and the description were written
C2_Witness ==
    /\ Ended /\ "start" \in failed /\ tally.cleanups = 1
    /\ InLog("payload") /\ InLog("description")
    /\ DOMAIN vm.files = {SessionDisk, SessionMeta}

Guarded == {"unmount", "vyos", "talos", "ubuntu", "start", "mount", "copy", "eject"}

\* C3: unmount, download, VM start, mount, copy and eject run only after
\* confirm_device returned true, which it does only under --yes, or on a typed
\* "yes" in any letter case (destructive run), or on an accepted prompt
\* (skip-install run); a refusal ends the run non-zero with none of them run.
C3_NothingBeforeConfirmation ==
    /\ (\E i \in DOMAIN log : log[i] \in Guarded) => run.confirmed
    /\ run.confirmed =>
         \/ opt.yes
         \/ ~opt.skip_ventoy /\ run.answer \in {"yes", "YES"}
         \/ opt.skip_ventoy /\ run.accepted
    /\ "confirm" \in failed =>
         /\ Ended /\ status = "nonzero"
         /\ \A i \in DOMAIN log : log[i] \notin Guarded

\* a destructive run went on after "YES" was typed
C3_Witness ==
    /\ ~opt.yes /\ ~opt.skip_ventoy /\ run.answer = "YES" /\ run.confirmed
    /\ InLog("unmount") /\ InLog("start")

\* nothing but the cleanup of the finally clause runs after the stage
NothingAfter(stage) ==
    \A i \in DOMAIN log, j \in DOMAIN log :
        (log[i] = stage /\ j > i) => log[j] = "cleanup"

\* C4 as claimed: whichever stage fails, unmount and eject included, no later
\* stage runs and the exit status is not zero.
C4_Original ==
    \A stage \in failed :
        /\ NothingAfter(stage)
        /\ status # "zero"
        /\ Ended => status = "nonzero"

\* C4 as amended: whichever stage other than unmount and eject fails (their
\* results are not looked at), no later stage runs and the exit status is
\* not zero.
C4_FailureAborts ==
    \A stage \in failed \ {"unmount", "eject"} :
        /\ NothingAfter(stage)
        /\ status # "zero"
        /\ Ended => status = "nonzero"

\* the disk preparation failed: only the cleanup followed
C4_Witness ==
    /\ Ended /\ status = "nonzero" /\ "prepare" \in failed
    /\ log[Len(log)] = "cleanup" /\ log[Len(log) - 1] = "prepare"

Rank(stage) ==
    CASE stage = "prereq" -> 1 [] stage = "credentials" -> 2 [] stage = "select" -> 3
      [] stage = "confirm" -> 4 [] stage = "vyos" -> 5 [] stage = "talos" -> 6
      [] stage = "resolve" -> 6 [] stage = "vidpid" -> 7 [] stage = "unmount" -> 8
      [] stage = "ubuntu" -> 9 [] stage = "prepare" -> 10 [] stage = "payload" -> 11
      [] stage = "description" -> 12 [] stage = "start" -> 13 [] stage = "wait" -> 14
      [] stage = "cleanup" -> 15 [] stage = "partition" -> 16 [] stage = "mount" -> 17
      [] stage = "copy" -> 18 [] stage = "eject" -> 19

FetchStages == {"credentials", "vyos", "talos"}
InstallStages == {"vidpid", "unmount", "ubuntu", "cleanup"} \cup VmStages

\* the stages of a complete run under the flags given
FullRun ==
    {i \in 1..19 : /\ (opt.skip_download => i \notin {2, 5})
                   /\ (opt.skip_ventoy => i \notin 7..15)}

\* C5: the stages run in the order precondition checks, credential load,
\* device selection, confirmation, ISO fetch, install, partition wait, mount,
\* copy, eject; the credential load and the ISO fetch only without
\* --skip-download, the install only without --skip-ventoy; a file is copied
\* only after the partition wait succeeded and the mount returned a path; a
\* run that exits zero ran every stage its flags ask for.
C5_StageOrder ==
    /\ \A i \in DOMAIN log, j \in DOMAIN log :
         i < j => Rank(log[i]) < Rank(log[j])
    /\ \A i \in DOMAIN log :
         /\ opt.skip_download => log[i] \notin FetchStages
         /\ ~opt.skip_download => log[i] # "resolve"
         /\ opt.skip_ventoy => log[i] \notin InstallStages
    /\ InLog("copy") =>
         /\ InLog("partition") /\ InLog("mount") /\ run.mount_point
         /\ failed \cap {"partition", "mount"} = {}
    /\ status = "zero" =>
         /\ {Rank(log[i]) : i \in DOMAIN log} = FullRun
         /\ InLog(IF opt.skip_download THEN "resolve" ELSE "talos")

\* a complete run with downloads and install
C5_Witness ==
    /\ status = "zero" /\ ~opt.skip_download /\ ~opt.skip_ventoy
    /\ Len(log) = 19 /\ log[1] = "prereq" /\ log[19] = "eject"

\* the file names the manifest's destinations give, and the configuration
Wanted ==
    {e.destination[Len(e.destination)] :
        e \in {host.manifest.images[i] : i \in DOMAIN host.manifest.images}}
    \cup {"gateway.conf"}

\* C6: a run that exits zero has copied the VyOS ISO and the Talos ISO, under
\* the file names of their manifest destinations, and gateway.conf; a run
\* whose copy stage left any of the three out does not exit zero.
C6_ZeroMeansAllCopied ==
    /\ status = "zero" => (Cardinality(Wanted) = 3 /\ Wanted \subseteq usb)
    /\ (InLog("copy") /\ "copy" \notin failed /\ ~(Wanted \subseteq usb))
         => status # "zero"
    /\ (InLog("copy") /\ "copy" \notin failed) => Wanted \subseteq usb

\* a skip-download run copied the three files from the cache
C6_Witness ==
    /\ status = "zero" /\ opt.skip_download
    /\ usb = {"vyos.iso", "talos.iso", "gateway.conf"}

\* the completion wait ran out of time / the partition wait ran out of polls
TimedOut == ("wait" \in failed /\ pending = "exit") \/ "partition" \in failed

\* C13: when the completion wait has used up its 300 seconds, or the
\* partition wait its 30 polls, the wait ends as a failed stage, never as a
\* completed one; and after either, the run does not exit zero and never
\* mounts, copies or ejects.
C13_TimeoutIsFailure ==
    [][ /\ (pc = "wait" /\ clock >= InstallTimeout /\ pc' # pc)
           => (pc' = "cleanup" /\ pending' = "exit" /\ "wait" \in failed')
        /\ (pc = "partition" /\ clock >= PartitionTimeout /\ pc' # pc)
           => (pc' = "exit" /\ status' = "nonzero" /\ "partition" \in failed')
        /\ TimedOut' =>
             /\ status' # "zero" /\ (pc' = "exit" => status' = "nonzero")
             /\ \A i \in DOMAIN log' : log'[i] \notin {"mount", "copy", "eject"}
      ]_vars

\* the install never finished: cleanup ran and the run ended non-zero
C13_Witness ==
    /\ Ended /\ "wait" \in failed /\ pending = "exit" /\ status = "nonzero"
    /\ tally.cleanups = 1 /\ tally.was_listed

\* a required tool or file is absent: check_prerequisites found one missing
\* (the hypervisor, qemu-img on arm64, gateway.conf), the credentials could
\* not be loaded, the manifest is absent, or the description's template is
Missing ==
    \/ "prereq" \in failed
    \/ "credentials" \in failed
    \/ ~host.manifest.exists
    \/ "description" \in failed

\* credentials decrypted, the cache directories made (DownloadManager() runs
\* before the device is selected), a download, the unmount, a conversion or
\* a VM
SideEffect ==
    \/ creds
    \/ InLog("select")
    \/ \E i \in DOMAIN log : log[i] \in {"unmount", "ubuntu", "prepare", "start"}

\* C15: a run on a host where a required tool or file is absent ends
\* non-zero, and nothing has been decrypted, downloaded, created, unmounted
\* or converted when it does.
C15_PreconditionsFirst ==
    Missing => /\ ~SideEffect
               /\ status # "zero"
               /\ Ended => status = "nonzero"

\* C19: under --skip-ventoy no stage of the install runs (identity-token
\* lookup, unmount, VM image fetch, prepare_disk, payload, description,
\* start, completion wait, cleanup), the session directory, the cached VM
\* image and the hypervisor are left as they were, and the ISO stage is
\* followed by the partition wait.
C19_SkipInstallTouchesNoVm ==
    [][ opt.skip_ventoy =>
          /\ vm' = vm /\ listed' = listed /\ tally' = tally
          /\ cache'["ubuntu"] = cache["ubuntu"]
          /\ \A i \in DOMAIN log' : log'[i] \notin InstallStages
          /\ (pc \in {"talos", "resolve"} /\ pc' \notin {pc, "exit"}) => pc' = "partition"
      ]_vars

\* a complete skip-install run next to a cached disk and its fingerprint
C19_Witness ==
    /\ opt.skip_ventoy /\ status = "zero"
    /\ exists(vm.files, SessionDisk) /\ exists(vm.files, SessionMeta)
    /\ tally = NoTally

\* the file names the manifest's entries of that name give
FileNames(n) ==
    {host.manifest.images[i].destination[Len(host.manifest.images[i].destination)] :
        i \in {j \in DOMAIN host.manifest.images : host.manifest.images[j].name = n}}

\* what follows the ISO stage: the install, the waits, the copy
AfterIsoStages == InstallStages \cup {"partition", "mount", "copy", "eject"}

\* C20: under --skip-download the credentials are not loaded and the ISO
\* downloads are not run, so the ISO cache stays as it was; the run goes past
\* the ISO stage only with both ISO names resolved from the manifest and both
\* files in the cache, and otherwise ends non-zero there.
C20_SkipDownloadUsesTheCache ==
    [][ opt.skip_download =>
          /\ ~creds'
          /\ cache'["vyos"] = cache["vyos"] /\ cache'["talos"] = cache["talos"]
          /\ \A i \in DOMAIN log' : log'[i] \notin FetchStages
          /\ (\E i \in DOMAIN log' : log'[i] \in AfterIsoStages) =>
               /\ cache["vyos"].there /\ cache["talos"].there
               /\ run'.vyos_iso \in FileNames("vyos-stream")
               /\ run'.talos_iso \in FileNames("talos-um760")
          /\ "resolve" \in failed' =>
               /\ pc' = "exit" /\ status' = "nonzero"
               /\ \A i \in DOMAIN log' : log'[i] \notin AfterIsoStages
          /\ (pc = "resolve" /\ ~(cache["vyos"].there /\ cache["talos"].there))
               => "resolve" \in failed'
      ]_vars

\* the Talos ISO was not in the cache: the run ended at the ISO stage
C20_Witness ==
    /\ opt.skip_download /\ Ended /\ status = "nonzero" /\ "resolve" \in failed
    /\ host.manifest.exists /\ cache["vyos"].there /\ ~cache["talos"].there
    /\ log[Len(log)] = "resolve"

\* the place of a stage in the run
Pos(stage) == IF InLog(stage) THEN CHOOSE i \in DOMAIN log : log[i] = stage ELSE 0
Succeeded(stage) == InLog(stage) /\ stage \notin failed
Once(stage) == \A i, j \in DOMAIN log : log[i] = stage /\ log[j] = stage => i = j

\* C21: unmount and eject are best-effort.  Whatever usb_mgr.unmount returns,
\* main() goes on to the VM install (the base-image download that opens it)
\* with no exception pending and no exit status set; whatever usb_mgr.eject
\* returns, main() returns with exit status zero.
C21_UnmountAndEjectAreBestEffort ==
    [][/\ pc = "unmount" =>
            pc' = "ubuntu" /\ pending' = "" /\ status' = "none"
       /\ pc = "eject" =>
            pc' = "exit" /\ pending' = "" /\ status' = "zero"]_vars

\* a run whose unmount and eject both failed, which installed and returned 0
C21_Witness ==
    /\ Ended /\ status = "zero"
    /\ {"unmount", "eject"} \subseteq failed
    /\ Succeeded("wait")

\* C22: the install session goes Idle -> DiskReady -> PayloadReady ->
\* DescriptionGenerated -> Running -> {Succeeded | TimedOut | Failed} ->
\* CleanedUp.  A stage is entered only after the one before it succeeded
\* (the start after prepare_disk, create_cloud_init_iso and generate_vmx in
\* that order, the wait after a successful start), no stage happens twice,
\* and every session that began ends with cleanup as its last VM stage.
C22_SessionStateMachine ==
    /\ InLog("payload") => Succeeded("prepare") /\ Pos("prepare") < Pos("payload")
    /\ InLog("description") =>
          Succeeded("payload") /\ Pos("payload") < Pos("description")
    /\ InLog("start") =>
          Succeeded("description") /\ Pos("description") < Pos("start")
    /\ InLog("wait") => Succeeded("start") /\ Pos("start") < Pos("wait")
    /\ \A s \in VmStages \cup {"cleanup"} : Once(s)
    /\ \A s \in VmStages : InLog(s) /\ InLog("cleanup") => Pos(s) < Pos("cleanup")
    /\ Ended /\ InLog("ubuntu") => InLog("cleanup")

\* a session that went through every state to TimedOut and was cleaned up
C22_Witness ==
    /\ Ended /\ InLog("cleanup")
    /\ Succeeded("prepare") /\ Succeeded("payload") /\ Succeeded("description")
    /\ Succeeded("start") /\ "wait" \in failed

\* C29: main() does not retry.  Each of the VyOS ISO, the Talos ISO and the
\* VM base image is asked for at most once in a run, the VM is started at
\* most once, and after a failed VyOS ISO download the Talos ISO is never
\* asked for.
C29_NoRetry ==
    /\ \A s \in {"vyos", "talos", "ubuntu", "start"} : Once(s)
    /\ "vyos" \in failed => ~InLog("talos") /\ (Ended => status = "nonzero")

\* a run that ended on a failed VyOS ISO download
C29_Witness ==
    /\ Ended /\ "vyos" \in failed /\ log[Len(log)] = "vyos"

\* four hex digits, a colon, four hex digits
HexDigit ==
    {"0", "1", "2", "3", "4", "5", "6", "7", "8", "9",
     "a", "b", "c", "d", "e", "f", "A", "B", "C", "D", "E", "F"}
TokenForm(t) ==
    /\ Len(t) = 9 /\ t[5] = ":"
    /\ \A i \in {1, 2, 3, 4, 6, 7, 8, 9} : t[i] \in HexDigit

\* C28: a manual token that is not four hex digits, a colon, four hex digits
\* ends the run non-zero at once: the device is not unmounted and the session
\* directory is left as it was.  A run that goes past the token stage holds a
\* token of that form, so generate_vmx is only ever given such a token.
C28_ManualTokenIsValidated ==
    [][/\ pc = "vid_pid" =>
            IF "vidpid" \in failed'
            THEN /\ pc' = "exit" /\ status' = "nonzero"
                 /\ vm' = vm /\ usb' = usb /\ ~InLog("unmount")'
            ELSE pc' = "unmount" /\ TokenForm(run'.vid_pid)
       /\ pc = "generate_vmx" => TokenForm(run.vid_pid)]_vars

\* a description generated with a token typed at the prompt in uppercase
C28_Witness ==
    /\ Succeeded("description")
    /\ run.vid_pid = <<"0", "A", "5", "C", ":", "2", "1", "E", "8">>

\* C33: main() holds a mount path only if diskutil mount succeeded and the
\* mount point diskutil info reports exists; a run whose mount_partition
\* returned None has ended non-zero with nothing copied and no eject.
C33_MountOrAbort ==
    /\ run.mount_point =>
          /\ run.mount.mounted /\ run.mount.reported = "path" /\ run.mount.exists
          /\ "mount" \notin failed
    /\ (InLog("mount") /\ ~run.mount_point) => "mount" \in failed
    /\ "mount" \in failed =>
          /\ Ended /\ status = "nonzero"
          /\ ~InLog("copy") /\ ~InLog("eject") /\ usb = {}

\* the mount succeeded and the mount point it reported was not there
C33_Witness ==
    /\ Ended /\ "mount" \in failed
    /\ run.mount.mounted /\ run.mount.reported = "path" /\ ~run.mount.exists

\* C35: the device main() works on is one that list_external_devices lists:
\* whatever select_device returned, from --device or from the prompt, is an
\* external physical disk, and so is the device of every later stage.
C35_DeviceIsExternal ==
    run.usb_device # "" => run.usb_device \in ExternalDisks


\* C36: the finally clause deletes session files only once the session is
\* no longer listed as running, also when the soft stop did not bring the
\* guest down within the 2 seconds stop_vm sleeps
C36_FilesDeletedOnlyWhenStopped ==
    [][(pc = "cleanup" /\ vm'.files # vm.files) => ~listed']_vars


\* C37: the install is reported complete only if a poll after the start
\* request saw the session listed (the clock has advanced past a sleep, which
\* only a poll that saw it listed takes) before a poll saw it not listed
C37_SuccessNeedsAnObservedRun ==
    [][(pc = "wait" /\ pc' = "cleanup" /\ pending' = "") => clock > 0]_vars


\* a file of the cache by its name: *.vmdk or *.vmdk.meta.json
CacheName(n) ==
    \/ Len(n) >= 2 /\ n[Len(n)] = "vmdk"
    \/ Len(n) >= 4 /\ n[Len(n) - 2] = "vmdk" /\ n[Len(n) - 1] = "meta"
                   /\ n[Len(n)] = "json"

\* C38: cleanup leaves every *.vmdk and *.vmdk.meta.json file of the session
\* directory present and unchanged, removes every other file and every
\* subdirectory, adds nothing, and a second cleanup changes nothing more
C38_CleanupKeepsExactlyTheCache ==
    [][pc = "cleanup" =>
         /\ DOMAIN vm'.files =
              {n \in DOMAIN vm.files : vm.files[n].kind # "dir" /\ CacheName(n)}
         /\ \A n \in DOMAIN vm'.files : vm'.files[n] = vm.files[n]
         /\ vm'.exists = vm.exists
         /\ cleanup(vm') = vm']_vars

\* a cleanup that found the staging directory of a failed payload build next
\* to the converted disk and its fingerprint, and left the two
C38_Witness ==
    /\ tally.cleanups = 1 /\ "payload" \in failed
    /\ exists(vm.files, SessionDisk) /\ exists(vm.files, SessionMeta)
    /\ ~exists(vm.files, StagingDir)


\* C39: the base image of the VM is fetched exactly in the runs whose install
\* stage runs (the device was unmounted for it), which --skip-ventoy alone
\* rules out; --skip-download does not, and then the fetch runs with no
\* credentials loaded
C39_BaseImageFollowsTheInstallStage ==
    /\ InLog("ubuntu") => ~opt.skip_ventoy /\ InLog("unmount")
    /\ (InLog("unmount") /\ pc # "ubuntu") => InLog("ubuntu")
    /\ (InLog("ubuntu") /\ opt.skip_download) => ~creds

\* a run under --skip-download, without credentials, that fetched the base
\* image over HTTP (it was not in the cache) and went on to prepare the disk
C39_Witness ==
    /\ opt.skip_download /\ ~opt.skip_ventoy /\ ~creds
    /\ InLog("ubuntu") /\ "ubuntu" \notin failed
    /\ cache["ubuntu"].there /\ run.image.mtime = 2

-----------------------------------------------------------------------------
(* Claims on the polling loops (SpecWait) *)

Returned(op) == poll.op = op /\ poll.at = "done"
Polls == DOMAIN poll.seen

\* C11: wait_for_ventoy_install returns true exactly when a poll made before
\* the bound had elapsed found the session not listed, and false exactly when
\* every poll found it listed and the bound has elapsed; polls are made only
\* before the bound has elapsed, and the poll that ends a successful call is
\* the one that found the session gone.
C11_ShutdownIsTheOnlySuccess ==
    poll.op = "wait_for_ventoy_install" =>
        /\ \A k \in Polls : poll.polled_at[k] < poll.timeout
        /\ poll.at = "loop" => \A k \in Polls : poll.seen[k]
        /\ poll.at = "done" =>
             /\ poll.ret \in {"true", "false"}
             /\ poll.ret = "true" <=> \E k \in Polls : ~poll.seen[k]
             /\ poll.ret = "true" => ~poll.seen[Len(poll.seen)]
             /\ poll.ret = "false" <=>
                  ((\A k \in Polls : poll.seen[k]) /\ poll.now >= poll.timeout)

\* the session was listed at two polls and gone at the third
C11_Witness ==
    /\ Returned("wait_for_ventoy_install") /\ poll.ret = "true"
    /\ poll.seen = <<TRUE, TRUE, FALSE>>

\* C12: wait_for_ventoy_install called with a bound of 2 seconds, the session
\* listed at every poll, returns false, and does so about 2 seconds (at most
\* 3) after it was called.
C12_TwoSecondBound ==
    (/\ Returned("wait_for_ventoy_install") /\ poll.timeout = 2
     /\ \A k \in Polls : poll.seen[k])
    => (poll.ret = "false" /\ poll.now <= poll.timeout + 1)

\* C14: wait_for_partition polls at most `timeout` times, consecutive polls at
\* least a second apart; it returns true at the first poll that finds the
\* partition and polls no further, false after `timeout` polls that did not,
\* and false without a poll when timeout is 0; and every call returns.
C14_Safe ==
    poll.op = "wait_for_partition" =>
        /\ poll.polls = Len(poll.seen) /\ poll.polls <= poll.timeout
        /\ \A k \in Polls : k < Len(poll.seen) => ~poll.seen[k]
        /\ \A k \in Polls : k > 1 => poll.polled_at[k] - poll.polled_at[k - 1] >= 1
        /\ poll.at = "loop" => \A k \in Polls : ~poll.seen[k]
        /\ poll.at = "done" =>
             /\ poll.ret = "true" <=> (poll.polls > 0 /\ poll.seen[poll.polls])
             /\ poll.ret = "false" <=>
                  (poll.polls = poll.timeout /\ \A k \in Polls : ~poll.seen[k])
             /\ poll.timeout = 0 => (poll.ret = "false" /\ poll.polls = 0)
C14_BoundedPolling ==
    /\ []C14_Safe
    /\ (poll.op = "wait_for_partition" /\ poll.at = "loop") ~> (poll.at = "done")

\* the partition was there at the third of four polls allowed
C14_Witness ==
    /\ Returned("wait_for_partition") /\ poll.ret = "true" /\ poll.timeout = 4
    /\ poll.seen = <<FALSE, FALSE, TRUE>>

\* C32: while wait_for_ventoy_install waits with the session listed, a
\* heartbeat is logged for every 15-second mark below the bound: once a poll
\* made at or after second 15k has found the session listed, a "Still
\* installing" line has been logged with an elapsed time within one polling
\* period of 15k, whatever the polls and sleeps took.
C32_HeartbeatEvery15Seconds ==
    poll.op = "wait_for_ventoy_install" =>
        \A k \in 1..(poll.timeout \div 15) :
            (/\ 15 * k < poll.timeout
             /\ \E j \in Polls : poll.polled_at[j] >= 15 * k /\ poll.seen[j])
            => \E b \in DOMAIN poll.beats :
                  poll.beats[b] \in (15 * k)..(15 * k + 4)

-----------------------------------------------------------------------------
(* Claims on load_iso_config and extract_vid_pid (SpecCalls) *)

Applied(fn) == call.fn = fn /\ call.done
Named(images, n) == {i \in DOMAIN images : images[i].name = n}

\* the path is "images/" followed by the destination of an entry of that name
IsImagesPath(path, images, n) ==
    \E i \in Named(images, n) :
        /\ path # <<>> /\ path[1] = "images"
        /\ SubSeq(path, 2, Len(path)) = images[i].destination

\* C16: applied to a manifest that holds an entry named vyos-stream and one
\* named talos-um760, load_iso_config returns "images/" + destination for
\* each; applied to a manifest without one of them, or when the file is
\* absent, it raises and returns no path at all.
C16_BothPathsOrError ==
    Applied("load_iso_config") =>
        LET m == call.arg
            r == call.ret
        IN IF /\ m.exists
              /\ Named(m.images, "vyos-stream") # {}
              /\ Named(m.images, "talos-um760") # {}
           THEN /\ r.ok
                /\ IsImagesPath(r.vyos_path, m.images, "vyos-stream")
                /\ IsImagesPath(r.talos_path, m.images, "talos-um760")
           ELSE ~r.ok /\ r.vyos_path = <<>> /\ r.talos_path = <<>>

\* a manifest of three images, the two wanted ones among them
C16_Witness ==
    /\ Applied("load_iso_config") /\ Len(call.arg.images) = 3
    /\ call.ret = [ok |-> TRUE, vyos_path |-> <<"images", "isos", "vyos.iso">>,
                   talos_path |-> <<"images", "talos.iso">>]

\* the first block of the device that shows both ids
Matching(blocks) ==
    {i \in DOMAIN blocks : /\ blocks[i].product = DeviceName
                           /\ blocks[i].idVendor # <<>> /\ blocks[i].idProduct # <<>>}
FirstMatch(blocks) == CHOOSE i \in Matching(blocks) : \A j \in Matching(blocks) : i <= j

\* the number four hexadecimal characters stand for; -1 if one is not a
\* lowercase hexadecimal digit
LowerHex == {"0", "1", "2", "3", "4", "5", "6", "7", "8", "9", "a", "b", "c", "d", "e", "f"}
HexValue(c) == CHOOSE v \in 0..15 : HexDigits[v + 1] = c
Value4(text) ==
    IF \E k \in 1..4 : text[k] \notin LowerHex THEN -1
    ELSE 4096 * HexValue(text[1]) + 256 * HexValue(text[2])
         + 16 * HexValue(text[3]) + HexValue(text[4])

\* C17: when the block of the device shows a vendor id and a product id in
\* 0..65535, extract_vid_pid returns nine characters: four lowercase
\* hexadecimal digits whose value is the vendor id, a colon, and four whose
\* value is the product id; 30001 (0x7531) and 1602 (0x0642) give 7531:0642.
C17_TokenFormat ==
    (/\ Applied("extract_vid_pid") /\ call.arg.known /\ call.arg.ioreg_ok
     /\ Matching(call.arg.blocks) # {})
    => LET block == call.arg.blocks[FirstMatch(call.arg.blocks)]
           token == call.ret
       IN \E vid \in UsbIds, pid \in UsbIds :
            /\ decimal(vid) = block.idVendor /\ decimal(pid) = block.idProduct
            /\ Len(token) = 9 /\ token[5] = ":"
            /\ Value4(SubSeq(token, 1, 4)) = vid
            /\ Value4(SubSeq(token, 6, 9)) = pid
            /\ (vid = 30001 /\ pid = 1602)
               => token = <<"7", "5", "3", "1", ":", "0", "6", "4", "2">>

\* the ids of the example, in the second block ioreg showed
C17_Witness ==
    /\ Applied("extract_vid_pid") /\ Len(call.arg.blocks) = 2
    /\ Matching(call.arg.blocks) = {2}
    /\ call.ret = <<"7", "5", "3", "1", ":", "0", "6", "4", "2">>

-----------------------------------------------------------------------------
(* Claims on concurrent runs (SpecPair) *)

\* C18: of two runs at once, for different devices, neither stops the VM
\* the other started, deletes or overwrites a session file the other wrote
\* and still needs, or takes the other's running VM for its own.
C18_RunsDoNotInterfere == pair.harm = {}

-----------------------------------------------------------------------------
(* Claims on the artifact store (SpecFetch) *)

\* C7: a download_http or download_s3 call whose destination exists returns
\* success, sends no request and leaves every cached file as it was; so a
\* call that follows a successful call for the same artifact does the same.
C7_CacheHitIsNoOp ==
    [][ /\ (fetch'.op # "none" /\ cache[fetch'.artifact].there)
           => (fetch'.ret = "true" /\ fetch'.reqs = 0 /\ cache' = cache)
        /\ (fetch.ret = "true" /\ fetch'.op # "none" /\ fetch'.artifact = fetch.artifact)
           => (fetch'.ret = "true" /\ fetch'.reqs = 0)
      ]_vars

\* an object-storage fetch has been served from the cache without credentials
C7_Witness ==
    /\ fetch.op = "download_s3" /\ fetch.hit /\ fetch.ret = "true" /\ fetch.reqs = 0
    /\ cache[fetch.artifact] = Whole
    /\ cache["ubuntu"] = Whole

\* C8: no destination path ever holds a partial file: after a fetch that did
\* not complete the path is absent or holds the complete file, and a cache hit
\* is never taken on a partial file.
C8_NoPartialFileAtDestination ==
    \A a \in Artifacts : cache[a].there => cache[a] = Whole

\* C27: download_s3 with the destination absent and no credentials returns
\* False, sends nothing and creates no file; with credentials it sends the
\* head_object probe first, and the download only after the probe answered:
\* a failed probe is the only request of its call, and after a failed probe
\* or a failed download the call returns False with no file at the
\* destination.  With the destination present the call returns True without
\* a request, credentials or not.
C27_S3OrderOfChecks ==
    [][fetch'.op = "download_s3" =>
         LET dest == fetch'.artifact IN
         IF cache[dest].there
         THEN fetch'.ret = "true" /\ fetch'.reqs = 0 /\ cache' = cache
         ELSE IF ~creds
         THEN fetch'.ret = "false" /\ fetch'.reqs = 0 /\ cache' = cache
         ELSE CASE fetch'.ev = "ok" ->
                     fetch'.ret = "true" /\ fetch'.reqs = 2 /\ cache'[dest].there
                [] fetch'.ev = "probe" ->
                     fetch'.ret = "false" /\ fetch'.reqs = 1 /\ ~cache'[dest].there
                [] fetch'.ev = "transfer" ->
                     fetch'.ret = "false" /\ fetch'.reqs = 2 /\ ~cache'[dest].there
                [] OTHER -> ~cache'[dest].there]_vars

\* an ISO fetched by one run is served from the cache to a run that has no
\* credentials
C27_Witness ==
    /\ fetch.op = "download_s3" /\ fetch.hit /\ ~creds
    /\ fetch.ret = "true" /\ fetch.reqs = 0

-----------------------------------------------------------------------------
(* Claims on the converted-disk cache (SpecDisk) *)

ConversionTools == {"qemu-img", "ovftool", "tar"}
Ran(ops) == {ops[i] : i \in DOMAIN ops}

\* C9: a prepare_disk call made while the converted disk exists and its
\* fingerprint matches the source on name, size, modification time and format
\* returns the existing path, runs no tool and leaves the session directory
\* as it was; and a call that repeats a successful call with the same source
\* runs no tool.
C9_FreshCacheIsReturnedUntouched ==
    [][ /\ (last'.op = "prepare" /\ cache_state(vm.files, last'.image, last'.fmt) = "fresh")
           => (last'.ret = "path" /\ last'.ops = <<>> /\ vm'.files = vm.files)
        /\ (/\ last.op = "prepare" /\ last.ret = "path" /\ last'.op = "prepare"
            /\ last'.image = last.image /\ last'.fmt = last.fmt)
           => last'.ops = <<>>
      ]_vars

\* a successful conversion has been followed by a call with the same source,
\* and that call ran nothing
C9_Witness ==
    /\ last.op = "prepare" /\ last.again /\ last.was = "fresh"
    /\ last.ret = "path" /\ last.ops = <<>>
    /\ exists(vm.files, vmdk_path(last.image))

CallMeta == vmdk_metadata_path(vmdk_path(last'.image))
Stale == last'.op = "prepare" /\ cache_state(vm.files, last'.image, last'.fmt) # "fresh"

\* C23: a prepare_disk call that finds the cache not fresh and starts a
\* conversion has first deleted the fingerprint file if there was one, so a
\* fingerprint in the directory after the call is one the call wrote.
C23_NoFingerprintSurvivesAConversion ==
    [][(Stale /\ Ran(last'.ops) \cap ConversionTools # {}) =>
          /\ exists(vm.files, CallMeta) => "unlink_meta" \in Ran(last'.ops)
          /\ exists(vm'.files, CallMeta) => "write_meta" \in Ran(last'.ops)]_vars

\* the call just made, when it did not find the cache fresh and nothing
\* interrupted it
Built(fmt) == Stale /\ last'.fmt = fmt /\ last'.env.intr = "none"
CallDisk == vmdk_path(last'.image)
WroteNoFingerprint ==
    /\ "write_meta" \notin Ran(last'.ops)
    /\ exists(vm'.files, CallMeta) =>
          exists(vm.files, CallMeta) /\ vm'.files[CallMeta] = vm.files[CallMeta]
WroteFingerprint ==
    /\ last'.ops[Len(last'.ops)] = "write_meta"
    /\ vm'.files[CallMeta] = Meta(fingerprint(last'.image, last'.fmt))

\* C24: for a qcow2 source, when qemu-img is missing or exits non-zero,
\* prepare_disk raises, runs neither ovftool nor the archive extraction, and
\* writes no fingerprint (a missing qemu-img is not run at all); when the
\* conversion succeeds the call writes the fingerprint of the source it was
\* given and returns with the converted file in place.
C24_Qcow2FailureIsFatal ==
    [][Built("qcow2") =>
         LET env == last'.env IN
         IF env.qemu_present /\ env.qemu = "ok"
         THEN /\ last'.ret = "path" /\ WroteFingerprint
              /\ "qemu-img" \in Ran(last'.ops)
              /\ exists(vm'.files, CallDisk)
         ELSE /\ last'.ret = "raise" /\ WroteNoFingerprint
              /\ Ran(last'.ops) \cap {"ovftool", "tar"} = {}
              /\ "qemu-img" \in Ran(last'.ops) <=> env.qemu_present]_vars

\* a qcow2 conversion that exited non-zero and left its output behind
C24_Witness ==
    /\ last.op = "prepare" /\ last.fmt = "qcow2" /\ last.ret = "raise"
    /\ last.env.qemu_present /\ last.env.qemu = "fail_partial"
    /\ "qemu-img" \in Ran(last.ops)

\* the directory as the OVA branch finds it, and whether ovftool's exit 0
\* leaves a file at the converted path: the disk it wrote, or failing that
\* any other .vmdk in the directory, is renamed to it
AtBranch ==
    IF exists(vm.files, CallDisk)
    THEN [n \in DOMAIN vm.files \ {CallDisk, CallMeta} |-> vm.files[n]]
    ELSE vm.files
ImportSucceeds ==
    /\ last'.env.ovf_present
    /\ \/ last'.env.ovf = "ok"
       \/ /\ last'.env.ovf = "ok_nodisk"
          /\ \E n \in DOMAIN AtBranch : suffix(n) = "vmdk"
Place(ops, op) == IF op \in Ran(ops) THEN CHOOSE i \in DOMAIN ops : ops[i] = op ELSE 0
FirstDisk(members) ==
    CHOOSE i \in DOMAIN members :
      /\ suffix(members[i]) = "vmdk"
      /\ \A j \in 1..(i - 1) : suffix(members[j]) # "vmdk"

\* C25: for an OVA source prepare_disk runs ovftool first when it is there,
\* and goes on to the archive extraction exactly when ovftool is not there,
\* exits non-zero, or exits 0 with no file at the converted path.  The
\* extraction takes the first member whose name ends in .vmdk and writes it
\* under the converted path's name; a call in which neither way leaves a file
\* at the converted path raises.
C25_OvaFallback ==
    [][Built("ova") =>
         LET env == last'.env
             ops == last'.ops
         IN /\ "ovftool" \in Ran(ops) <=> env.ovf_present
            /\ "tar" \in Ran(ops) <=> ~ImportSucceeds
            /\ "tar" \in Ran(ops) /\ env.ovf_present => Place(ops, "ovftool") < Place(ops, "tar")
            /\ ("tar" \in Ran(ops) /\ env.tar = "ok") =>
                  /\ Extracted[FirstDisk(getmembers(env.tar))] \in Ran(ops)
                  /\ \A k \in DOMAIN Extracted :
                        Extracted[k] \in Ran(ops) => k = FirstDisk(getmembers(env.tar))
                  /\ exists(vm'.files, CallDisk)
                  /\ \A k \in DOMAIN getmembers(env.tar) :
                        ~exists(vm'.files, getmembers(env.tar)[k])
            /\ IF ImportSucceeds \/ env.tar = "ok"
               THEN last'.ret = "path" /\ exists(vm'.files, CallDisk)
               ELSE last'.ret = "raise" /\ ~exists(vm'.files, CallDisk)]_vars

\* ovftool exited 0 with no disk anywhere, and the archive gave the disk
C25_Witness ==
    /\ last.op = "prepare" /\ last.fmt = "ova" /\ last.ret = "path"
    /\ last.env.ovf_present /\ last.env.ovf = "ok_nodisk"
    /\ last.ops = <<"ovftool", "tar", "extract 2", "write_meta">>

\* C26: on every branch of prepare_disk a fingerprint write is the last thing
\* the call does, after a tool of that branch has run and succeeded and with
\* a file at the converted path; a call that raises has written no
\* fingerprint.
C26_FingerprintOnlyAfterSuccess ==
    [][last'.op = "prepare" =>
         LET env == last'.env
             ops == last'.ops
         IN /\ "write_meta" \in Ran(ops) =>
                  /\ Place(ops, "write_meta") = Len(ops)
                  /\ exists(vm'.files, CallDisk)
                  /\ IF last'.fmt = "qcow2"
                     THEN "qemu-img" \in Ran(ops) /\ env.qemu = "ok"
                     ELSE IF "tar" \in Ran(ops)
                     THEN env.tar = "ok" /\ Ran(ops) \cap Ran(Extracted) # {}
                     ELSE "ovftool" \in Ran(ops) /\ env.ovf \in {"ok", "ok_nodisk"}
            /\ last'.ret = "raise" => WroteNoFingerprint]_vars

\* a call whose import and whose extraction both failed: no fingerprint
C26_Witness ==
    /\ last.op = "prepare" /\ last.ret = "raise"
    /\ {"ovftool", "tar"} \subseteq Ran(last.ops)
    /\ ~exists(vm.files, vmdk_metadata_path(vmdk_path(last.image)))

\* C34: whenever prepare_disk reports a cache hit (it returns the converted
\* path having run nothing), the file at that path is the complete output of
\* a conversion of the source the call was given.
C34_CacheHitIsACompleteConversion ==
    [][(last'.op = "prepare" /\ last'.ret = "path" /\ last'.ops = <<>>) =>
          /\ exists(vm'.files, CallDisk)
          /\ vm'.files[CallDisk].kind = "disk" /\ vm'.files[CallDisk].ok
          /\ vm'.files[CallDisk].src = fingerprint(last'.image, last'.fmt)]_vars

-----------------------------------------------------------------------------
(* Claims on the guest install script (SpecGuest) *)

\* C30: when the script has ended after looking for the device (no removable
\* device found, the installer exiting non-zero, or the installer
\* succeeding), /tmp/ventoy-status has been written and the guest has been
\* powered off.
C30_ScriptReportsAndPowersOff ==
    (script.at = "done" /\ script.i > 0) =>
        script.marker # "" /\ ~script.powered

\* the removable block devices of more than 1000000 sectors among those a
\* turn of the loop found
Sufficient(present) ==
    {d \in present : /\ BlockDevices[d].block
                     /\ BlockDevices[d].removable = "1"
                     /\ BlockDevices[d].size > 1000000}

\* C31: the device loop of the guest script makes at most 30 turns, one
\* second of sleep after each turn that found nothing.  A turn that finds a
\* removable block device of sufficient size ends the loop at once with that
\* device; a turn that finds none sleeps and, if it was the 30th, ends the
\* loop with no device.  With no device the script writes the failure marker
\* and exits 1; the installer step is only ever reached with a device.
C31_GuestDeviceLoop ==
    [][/\ script.at = "scan" =>
            /\ script.i \in 1..30 /\ script.slept = script.i - 1
            /\ IF Sufficient(script'.present) # {}
               THEN /\ script'.at = "check"
                    /\ script'.USB_DEV \in Sufficient(script'.present)
                    /\ script'.slept = script.slept
               ELSE /\ script'.USB_DEV = 0 /\ script'.slept = script.slept + 1
                    /\ IF script.i < 30
                       THEN script'.at = "scan" /\ script'.i = script.i + 1
                       ELSE script'.at = "check"
       /\ (script.at = "check" /\ script.USB_DEV = 0) =>
            /\ script'.at = "done" /\ script'.exit = "1"
            /\ script'.marker = "VENTOY_INSTALL_FAILED"
       /\ script.at = "install" => script.USB_DEV # 0]_vars

\* thirty turns without a device, thirty seconds slept, the failure path
C31_Witness ==
    /\ script.at = "done" /\ script.USB_DEV = 0
    /\ script.i = 30 /\ script.slept = 30 /\ script.exit = "1"

=============================================================================
